---- MODULE Spec2Model ----
(***************************************************************************)
(* Model of the sample_mflix movie API (mongodb/docs-sample-apps):         *)
(*   - the query compiler of GET /api/movies in its three implementations  *)
(*     (Express controller, the earlier Express controller revision, and   *)
(*     the Spring service),                                                *)
(*   - the startup sequence and the startup verifier.                      *)
(*                                                                         *)
(* Conventions.  A string is a sequence of one-character strings.  An      *)
(* optional value is a sequence of length <= 1: << >> is undefined / null  *)
(* and <<v>> is the value v.  A JavaScript number is << >> for NaN and     *)
(* <<n>> for the integer n.  Ratings are kept in tenths (7.0 is 70).       *)
(***************************************************************************)
EXTENDS Integers, Sequences, FiniteSets, TLC

\* ------------------------------------------------------------------------
\* Bounds
\* ------------------------------------------------------------------------

\* size of the pagination/sort part of a request: at most this many of
\* limit, skip, sortBy and sortOrder are supplied in one request
MaxPaging == 1

\* largest document count the count read reports
MaxCount == 1

\* number of requests that may be in flight at the same time
MaxClients == 2

\* number of times the process is started against the same database
MaxRuns == 2

\* number of documents the movies collection holds at most
MaxDocuments == 2

\* ------------------------------------------------------------------------
\* Strings and numbers
\* ------------------------------------------------------------------------

undefined == << >>

NaN == << >>

Some(v) == <<v>>

Digits == <<"0", "1", "2", "3", "4", "5", "6", "7", "8", "9">>

UpperCase ==
  <<"A", "B", "C", "D", "E", "F", "G", "H", "I", "J", "K", "L", "M",
    "N", "O", "P", "Q", "R", "S", "T", "U", "V", "W", "X", "Y", "Z">>

LowerCase ==
  <<"a", "b", "c", "d", "e", "f", "g", "h", "i", "j", "k", "l", "m",
    "n", "o", "p", "q", "r", "s", "t", "u", "v", "w", "x", "y", "z">>

IsDigit(c) == \E i \in 1..Len(Digits) : Digits[i] = c

DigitVal(c) == (CHOOSE i \in 1..Len(Digits) : Digits[i] = c) - 1

IsSpace(c) == c = " "

toLowerCaseChar(c) ==
  IF \E i \in 1..Len(UpperCase) : UpperCase[i] = c
  THEN LowerCase[CHOOSE i \in 1..Len(UpperCase) : UpperCase[i] = c]
  ELSE c

toLowerCase(s) == [i \in 1..Len(s) |-> toLowerCaseChar(s[i])]

RECURSIVE TrimStart(_)
TrimStart(s) ==
  IF s # << >> /\ IsSpace(Head(s)) THEN TrimStart(Tail(s)) ELSE s

RECURSIVE TrimEnd(_)
TrimEnd(s) ==
  IF s # << >> /\ IsSpace(s[Len(s)]) THEN TrimEnd(SubSeq(s, 1, Len(s) - 1)) ELSE s

trim(s) == TrimEnd(TrimStart(s))

RECURSIVE DigitPrefix(_)
DigitPrefix(s) ==
  IF s # << >> /\ IsDigit(Head(s)) THEN <<Head(s)>> \o DigitPrefix(Tail(s)) ELSE << >>

RECURSIVE DigitsValue(_, _)
DigitsValue(ds, acc) ==
  IF ds = << >> THEN acc ELSE DigitsValue(Tail(ds), acc * 10 + DigitVal(Head(ds)))

HasSign(s) == s # << >> /\ Head(s) \in {"-", "+"}

Unsigned(s) == IF HasSign(s) THEN Tail(s) ELSE s

SignOf(s) == IF s # << >> /\ Head(s) = "-" THEN -1 ELSE 1

\* JavaScript parseInt(string): leading white space is skipped, an optional
\* sign is read, then the longest run of digits; no digit gives NaN and
\* whatever follows the digits is ignored.
parseInt(str) ==
  LET t  == TrimStart(str)
      ds == DigitPrefix(Unsigned(t))
  IN  IF ds = << >> THEN NaN ELSE Some(SignOf(t) * DigitsValue(ds, 0))

\* JavaScript parseFloat(string), in tenths: digits, then an optional
\* fraction of which the first digit is kept.
parseFloat(str) ==
  LET t    == TrimStart(str)
      u    == Unsigned(t)
      ip   == DigitPrefix(u)
      rest == SubSeq(u, Len(ip) + 1, Len(u))
      fp   == IF rest # << >> /\ Head(rest) = "." THEN DigitPrefix(Tail(rest)) ELSE << >>
  IN  IF ip = << >> /\ fp = << >>
      THEN NaN
      ELSE Some(SignOf(t) * (DigitsValue(ip, 0) * 10
                              + (IF fp = << >> THEN 0 ELSE DigitVal(Head(fp)))))

\* JavaScript Math.max / Math.min: NaN if either argument is NaN.
MathMax(a, b) ==
  IF a = NaN \/ b = NaN THEN NaN ELSE IF a[1] >= b[1] THEN a ELSE b

MathMin(a, b) ==
  IF a = NaN \/ b = NaN THEN NaN ELSE IF a[1] <= b[1] THEN a ELSE b

\* JavaScript a || b on numbers: NaN and 0 are falsy.
OrElse(a, b) == IF a = NaN \/ a = Some(0) THEN b ELSE a

\* JavaScript truthiness of an optional string: undefined and "" are falsy.
Truthy(p) == p # undefined /\ p[1] # << >>

\* destructuring default: `name = dflt` applies to undefined only
Default(p, dflt) == IF p = undefined THEN dflt ELSE p[1]


\* ------------------------------------------------------------------------
\* Requests: the raw query string of GET /api/movies
\* ------------------------------------------------------------------------

qValues == {undefined, Some(<< >>), Some(<<" ">>), Some(<<"a">>)}

genreValues == {undefined, Some(<<"A", "c">>), Some(<<"[">>)}

yearValues == {undefined, Some(<<"x">>), Some(<<"1", "9", "9", "9">>)}

minRatingValues == {undefined, Some(<<"x">>), Some(<<"7", ".", "0">>)}

maxRatingValues == {undefined, Some(<<"9", ".", "0">>)}

limitValues ==
  {undefined, Some(<< >>), Some(<<"a", "b", "c">>), Some(<<"0">>), Some(<<"-", "5">>),
   Some(<<"5">>), Some(<<"1", "0", "1">>)}

skipValues == {undefined, Some(<<"a", "b", "c">>), Some(<<"-", "3">>), Some(<<"7">>)}

sortByValues == {undefined, Some(<<"y", "e", "a", "r">>)}

sortOrderValues ==
  {undefined, Some(<<"a", "s", "c">>), Some(<<"d", "e", "s", "c">>),
   Some(<<"D", "E", "S", "C">>), Some(<<"D", "e", "s", "c">>)}

FilterParams == {"q", "genre", "year", "minRating", "maxRating"}

PagingParams == {"limit", "skip", "sortBy", "sortOrder"}

FilterParts ==
  [q : qValues, genre : genreValues, year : yearValues,
   minRating : minRatingValues, maxRating : maxRatingValues]

PagingParts ==
  {p \in [limit : limitValues, skip : skipValues,
          sortBy : sortByValues, sortOrder : sortOrderValues] :
     Cardinality({f \in PagingParams : p[f] # undefined}) <= MaxPaging}

\* req.query: the nine optional parameters of one request
RawSearchQuery(f, p) ==
  [q |-> f.q, genre |-> f.genre, year |-> f.year,
   minRating |-> f.minRating, maxRating |-> f.maxRating,
   limit |-> p.limit, skip |-> p.skip, sortBy |-> p.sortBy, sortOrder |-> p.sortOrder]

NoQuery == RawSearchQuery([k \in FilterParams |-> undefined], [k \in PagingParams |-> undefined])

\* ------------------------------------------------------------------------
\* Regular expressions: new RegExp(genre, 'i') / Pattern.compile(genre)
\* over letters, brackets and parentheses
\* ------------------------------------------------------------------------

RECURSIVE RegExpScan(_, _, _)
RegExpScan(s, inClass, depth) ==
  IF s = << >> THEN ~inClass /\ depth = 0
  ELSE IF inClass THEN RegExpScan(Tail(s), Head(s) # "]", depth)
  ELSE IF Head(s) = "[" THEN RegExpScan(Tail(s), TRUE, depth)
  ELSE IF Head(s) = "(" THEN RegExpScan(Tail(s), FALSE, depth + 1)
  ELSE IF Head(s) = ")" THEN depth > 0 /\ RegExpScan(Tail(s), FALSE, depth - 1)
  ELSE RegExpScan(Tail(s), FALSE, depth)

\* TRUE when the pattern compiles; FALSE when the constructor throws
RegExpCompiles(pattern) == RegExpScan(pattern, FALSE, 0)

\* ------------------------------------------------------------------------
\* Express controller, getAllMovies: the filter, pagination and sort
\* ------------------------------------------------------------------------

EmptyFilter == << >>

\* the second assignment replaces the range object instead of extending it
RatingRangeOverwrite(minRating, maxRating) ==
  IF Truthy(maxRating) THEN "$lte" :> parseFloat(maxRating[1])
  ELSE IF Truthy(minRating) THEN "$gte" :> parseFloat(minRating[1])
  ELSE << >>

RatingRange(minRating, maxRating) ==
  (IF Truthy(minRating) THEN "$gte" :> parseFloat(minRating[1]) ELSE << >>)
  @@ (IF Truthy(maxRating) THEN "$lte" :> parseFloat(maxRating[1]) ELSE << >>)

\* const filter: MovieFilter = {}; then one `if` per parameter
filter(query) ==
  (IF Truthy(query.q) THEN "$text" :> [search |-> query.q[1]] ELSE EmptyFilter)
  @@ (IF Truthy(query.genre)
      THEN "genres" :> [regex |-> query.genre[1], flags |-> "i"] ELSE EmptyFilter)
  @@ (IF Truthy(query.year) THEN "year" :> parseInt(query.year[1]) ELSE EmptyFilter)
  @@ (IF Truthy(query.minRating) \/ Truthy(query.maxRating)
      THEN "imdb.rating" :> RatingRange(query.minRating, query.maxRating)
      ELSE EmptyFilter)

\* the temporary limit of 10 left in as the default
limitNumTemp(limit) ==
  MathMin(MathMax(OrElse(parseInt(Default(limit, <<"1", "0">>)), Some(10)), Some(1)),
          Some(100))

\* Math.min(Math.max(parseInt(limit) || 20, 1), 100)
limitNum(limit) ==
  MathMin(MathMax(OrElse(parseInt(Default(limit, <<"2", "0">>)), Some(20)), Some(1)),
          Some(100))

\* Math.max(parseInt(skip) || 0, 0)
skipNum(skip) == MathMax(OrElse(parseInt(Default(skip, <<"0">>)), Some(0)), Some(0))

\* { [sortBy]: sortOrder === 'desc' ? -1 : 1 }
sort(sortBy, sortOrder) ==
  [field |-> Default(sortBy, <<"t", "i", "t", "l", "e">>),
   order |-> IF Default(sortOrder, <<"a", "s", "c">>) = <<"d", "e", "s", "c">> THEN -1 ELSE 1]

\* the earlier revision of the controller: no defaulting of unparseable
\* values and no lower clamp
limitNum0(limit) == MathMin(parseInt(Default(limit, <<"2", "0">>)), Some(100))

skipNum0(skip) == parseInt(Default(skip, <<"0">>))


\* ------------------------------------------------------------------------
\* Spring controller and service, getAllMovies
\* ------------------------------------------------------------------------

RemoveSpaces(s) == SelectSeq(s, LAMBDA c : ~IsSpace(c))

\* conversion of a request parameter to Integer: null for an absent or
\* empty parameter (or the declared default), otherwise an optional sign
\* and digits only; anything else is a type mismatch
RequestParamInteger(p, dflt) ==
  IF p = undefined \/ p[1] = << >>
  THEN [mismatch |-> FALSE, value |-> dflt]
  ELSE LET t == RemoveSpaces(p[1])
           u == Unsigned(t)
       IN  IF u # << >> /\ DigitPrefix(u) = u
           THEN [mismatch |-> FALSE, value |-> Some(SignOf(t) * DigitsValue(u, 0))]
           ELSE [mismatch |-> TRUE, value |-> undefined]

\* conversion of a request parameter to Double (in tenths): digits with an
\* optional fraction and nothing else
RequestParamDouble(p) ==
  IF p = undefined \/ p[1] = << >>
  THEN [mismatch |-> FALSE, value |-> undefined]
  ELSE LET t    == RemoveSpaces(p[1])
           u    == Unsigned(t)
           ip   == DigitPrefix(u)
           rest == SubSeq(u, Len(ip) + 1, Len(u))
           fp   == IF rest # << >> /\ Head(rest) = "." THEN DigitPrefix(Tail(rest)) ELSE << >>
           all  == ip \o (IF rest # << >> /\ Head(rest) = "." THEN <<".">> ELSE << >>) \o fp
       IN  IF (ip # << >> \/ fp # << >>) /\ all = u
           THEN [mismatch |-> FALSE, value |-> parseFloat(t)]
           ELSE [mismatch |-> TRUE, value |-> undefined]

\* a String parameter with defaultValue: the default replaces an absent or
\* empty value
RequestParamString(p, dflt) == IF p = undefined \/ p[1] = << >> THEN dflt ELSE p[1]

\* the MovieSearchQuery the controller builds from the request parameters
MovieSearchQuery(query) ==
  [q         |-> query.q,
   genre     |-> query.genre,
   year      |-> RequestParamInteger(query.year, undefined),
   minRating |-> RequestParamDouble(query.minRating),
   maxRating |-> RequestParamDouble(query.maxRating),
   limit     |-> RequestParamInteger(query.limit, Some(20)),
   skip      |-> RequestParamInteger(query.skip, Some(0)),
   sortBy    |-> RequestParamString(query.sortBy, <<"t", "i", "t", "l", "e">>),
   sortOrder |-> RequestParamString(query.sortOrder, <<"a", "s", "c">>)]

TypeMismatch(msq) ==
  \E k \in {"year", "minRating", "maxRating", "limit", "skip"} : msq[k].mismatch

\* s != null && !s.trim().isEmpty()
NotBlank(p) == p # undefined /\ trim(p[1]) # << >>

\* the range with both ends excluded
buildRatingFilterExclusive(minRating, maxRating) ==
  (IF minRating # undefined THEN "$gt" :> minRating ELSE << >>)
  @@ (IF maxRating # undefined THEN "$lt" :> maxRating ELSE << >>)

buildRatingFilter(minRating, maxRating) ==
  (IF minRating # undefined THEN "$gte" :> minRating ELSE << >>)
  @@ (IF maxRating # undefined THEN "$lte" :> maxRating ELSE << >>)

buildFilter(msq) ==
  (IF NotBlank(msq.q) THEN "$text" :> [search |-> msq.q[1]] ELSE EmptyFilter)
  @@ (IF NotBlank(msq.genre)
      THEN "genres" :> [regex |-> msq.genre[1], flags |-> "i"] ELSE EmptyFilter)
  @@ (IF msq.year.value # undefined THEN "year" :> msq.year.value ELSE EmptyFilter)
  @@ (IF msq.minRating.value # undefined \/ msq.maxRating.value # undefined
      THEN "imdb.rating" :> buildRatingFilter(msq.minRating.value, msq.maxRating.value)
      ELSE EmptyFilter)

\* "desc".equalsIgnoreCase(sortOrder) ? -1 : 1
buildSort(sortBy, sortOrder) ==
  [field |-> IF trim(sortBy) # << >> THEN sortBy ELSE <<"t", "i", "t", "l", "e">>,
   order |-> IF toLowerCase(sortOrder) = <<"d", "e", "s", "c">> THEN -1 ELSE 1]

\* Math.min(Math.max(limit != null ? limit : 20, 1), 100)
serviceLimit(limit) ==
  MathMin(MathMax(IF limit # undefined THEN limit ELSE Some(20), Some(1)), Some(100))

\* Math.max(skip != null ? skip : 0, 0)
serviceSkip(skip) == MathMax(IF skip # undefined THEN skip ELSE Some(0), Some(0))


\* ------------------------------------------------------------------------
\* Documents, ids and the operations of the movies collection
\* ------------------------------------------------------------------------

TEST_MOVIE_ID ==
  <<"5", "0", "7", "f", "1", "f", "7", "7", "b", "c", "f", "8", "6", "c", "d", "7", "9", "9", "4", "3", "9", "0", "1", "1">>

\* a well-formed id that no document has
ABSENT_MOVIE_ID ==
  <<"5", "0", "7", "f", "1", "f", "7", "7", "b", "c", "f", "8", "6", "c", "d", "7", "9", "9", "4", "3", "9", "0", "1", "2">>

INVALID_MOVIE_ID == <<"i", "n", "v", "a", "l", "i", "d", "-", "i", "d">>

\* 24 characters, one of them not a hexadecimal digit
NOT_HEX_MOVIE_ID ==
  <<"5", "0", "7", "f", "1", "f", "7", "7", "b", "c", "f", "8", "6", "c", "d", "7", "9", "9", "4", "3", "9", "0", "1", "g">>

idValues == {TEST_MOVIE_ID, ABSENT_MOVIE_ID, INVALID_MOVIE_ID, NOT_HEX_MOVIE_ID}

HexDigits ==
  {"0", "1", "2", "3", "4", "5", "6", "7", "8", "9",
   "a", "b", "c", "d", "e", "f", "A", "B", "C", "D", "E", "F"}

\* ObjectId.isValid(id) for a string: 24 hexadecimal characters
ObjectIdIsValid(id) == Len(id) = 24 /\ \A i \in 1..Len(id) : id[i] \in HexDigits

SAMPLE_MOVIE == [title |-> "Test Movie", year |-> 2024]

\* the collection: a function from the _id values present to the documents
SampleCollection == TEST_MOVIE_ID :> SAMPLE_MOVIE

\* a document satisfies an equality filter when it has every key of the
\* filter with the filter's value; the empty filter matches every document
matchesFilter(doc, flt) == \A k \in DOMAIN flt : k \in DOMAIN doc /\ doc[k] = flt[k]

without(coll, ids) == [k \in DOMAIN coll \ ids |-> coll[k]]

\* a find that consumes what it reads
findAndRemove(coll, args) == [movies |-> << >>]

\* find(filter).sort(sort).limit(n).skip(m): a read
find(coll, args) == [movies |-> coll]

findOne(coll, id) ==
  [movies |-> coll, doc |-> IF id \in DOMAIN coll THEN Some(coll[id]) ELSE undefined]

\* { $set: update } on the document with the id
updateOne(coll, id, update) ==
  IF id \in DOMAIN coll
  THEN [movies |-> [k \in DOMAIN coll |-> IF k = id THEN update @@ coll[k] ELSE coll[k]],
        matchedCount |-> 1]
  ELSE [movies |-> coll, matchedCount |-> 0]

deleteOne(coll, id) ==
  [movies |-> without(coll, {id}), deletedCount |-> IF id \in DOMAIN coll THEN 1 ELSE 0]

deleteMany(coll, flt) ==
  LET hit == {k \in DOMAIN coll : matchesFilter(coll[k], flt)}
  IN  [movies |-> without(coll, hit), deletedCount |-> Cardinality(hit)]

\* findOneAndDelete({ _id }): one atomic operation of the database
findOneAndDelete(coll, id) ==
  [movies |-> without(coll, {id}),
   doc    |-> IF id \in DOMAIN coll THEN Some(coll[id]) ELSE undefined]

\* req.body of PUT /api/movies/:id
updateDataValues == {<< >>, "title" :> "Updated Movie"}

\* req.body of DELETE /api/movies: no filter, an empty one, one that
\* matches the sample document and one that matches nothing
deleteBodyValues ==
  {<< >>, "filter" :> << >>, "filter" :> ("year" :> 2024), "filter" :> ("year" :> 1999)}

Clients == 1..MaxClients

IdleClient == [pc |-> "idle", id |-> undefined, doc |-> undefined, response |-> undefined]

\* ------------------------------------------------------------------------
\* What the database does with the filter of a listing: the $regex
\* predicate on genres and the range on imdb.rating
\* ------------------------------------------------------------------------

Action == <<"A", "c", "t", "i", "o", "n">>

Comedy == <<"C", "o", "m", "e", "d", "y">>

\* imdb.rating values in tenths; a document may have none
ratingValues == {undefined, Some(0), Some(5), Some(69), Some(70), Some(71), Some(90), Some(91)}

genresValues == {<< >>, <<Action>>, <<Comedy>>, <<Comedy, Action>>}

\* the documents a listing may meet: the fields its filter reads
MovieDocuments == [genres : genresValues, rating : ratingValues]

\* one character of the subject against one of the pattern: `.` stands for
\* any character, a letter for itself, in both cases with flag i
regexCharTest(pc0, c, flags) ==
  \/ pc0 = "."
  \/ pc0 = c
  \/ flags = "i" /\ toLowerCaseChar(pc0) = toLowerCaseChar(c)

\* RegExp.test for a pattern of letters and `.`: unanchored, so a match may
\* start at any position of the subject
regexTest(pattern, flags, str) ==
  \E i \in 1..(Len(str) + 1) :
    /\ i + Len(pattern) - 1 <= Len(str)
    /\ \A j \in 1..Len(pattern) : regexCharTest(pattern[j], str[i + j - 1], flags)

\* { genres: { $regex } } on an array field: some element matches
genresMatch(genres, cond) ==
  \E k \in 1..Len(genres) : regexTest(cond.regex, cond.flags, genres[k])

\* one comparison operator against a stored number; a NaN operand is equal
\* to no number and ordered with none
compare(op, r, operand) ==
  /\ operand # NaN
  /\ CASE op = "$gte" -> r >= operand[1]
       [] op = "$lte" -> r <= operand[1]
       [] op = "$gt"  -> r > operand[1]
       [] op = "$lt"  -> r < operand[1]

\* { 'imdb.rating': { $gte, $lte } }: the field exists and satisfies every
\* operator of the range
ratingMatch(rating, range) ==
  /\ rating # undefined
  /\ \A op \in DOMAIN range : compare(op, rating[1], range[op])

\* the genres and imdb.rating predicates of a filter, applied to a document
listingMatch(doc, flt) ==
  /\ "genres" \in DOMAIN flt => genresMatch(doc.genres, flt["genres"])
  /\ "imdb.rating" \in DOMAIN flt => ratingMatch(doc.rating, flt["imdb.rating"])

\* the genre, minRating and maxRating parameters of the requests whose
\* filter is applied to MovieDocuments
matchGenreValues ==
  {undefined, Some(<<"A", "C", "T", "I", "O", "N">>), Some(<<"c", "t">>),
   Some(<<"c", ".", "i">>), Some(<<"[">>)}

matchMinRatingValues == {undefined, Some(<<"0">>), Some(<<"7", ".", "0">>)}

matchMaxRatingValues == {undefined, Some(<<"0">>), Some(<<"9", ".", "0">>)}

MatchQueries ==
  {[NoQuery EXCEPT !.genre = g, !.minRating = lo, !.maxRating = hi] :
     g \in matchGenreValues, lo \in matchMinRatingValues, hi \in matchMaxRatingValues}


\* ------------------------------------------------------------------------
\* State
\* ------------------------------------------------------------------------

VARIABLES
  impl,      \* which backend this process runs
  pc,        \* position of the process in its startup sequence
  log,       \* the log entries written so far
  indexes,   \* index catalog of the movies collection
  vr,        \* VerificationResult: what the startup verifier observed
  request,   \* req.query of the request being handled, if any
  findCall,  \* the arguments of the find issued for that request, if any
  response,  \* the response sent for that request, if any
  movies,    \* the _id values of the documents of the movies collection
  dbOps,     \* the database operations issued for that request, in order
  clients,   \* the find-and-delete requests in flight, one slot per client
  runs,      \* how many times the process has been started
  thrown,    \* the error the handler of that request threw, if it threw one
  awaited    \* what the database calls awaited by that handler have returned

vars ==
  <<impl, pc, log, indexes, vr, request, findCall, response, movies, dbOps, clients, runs,
    thrown, awaited>>

\* "express": the controller; "express0": its earlier revision;
\* "spring": the Spring controller and service
Impls == {"express", "express0", "spring"}

ExpressImpls == {"express", "express0"}

TEXT_INDEX_NAME == "text_search_index"

TextIndex == [name |-> TEXT_INDEX_NAME, fields |-> {"plot", "title", "fullplot"}]

Entry(level, msg) == [level |-> level, msg |-> msg]

CountOutcomes == {"threw"} \cup {"ok"}

Init ==
  /\ impl \in Impls
  /\ pc = "start"
  /\ log = << >>
  /\ indexes = {}
  /\ vr = [count |-> "pending", n |-> 0, index |-> "pending"]
  /\ request = << >>
  /\ findCall = << >>
  /\ response = << >>
  /\ movies = SampleCollection
  /\ dbOps = << >>
  /\ clients = [c \in Clients |-> IdleClient]
  /\ runs = 1
  /\ thrown = << >>
  /\ awaited = << >>

\* ------------------------------------------------------------------------
\* The database
\* ------------------------------------------------------------------------

\* every call creates an index: a second call adds a copy under a new name
createIndexAgain(catalog, index) ==
  IF index \in catalog
  THEN catalog \cup {[name |-> "text_search_index_1", fields |-> index.fields]}
  ELSE catalog \cup {index}

\* createIndex with a name and key the catalog already has is a no-op
createIndex(catalog, index) == catalog \cup {index}

\* a $text predicate needs the text index; every other compiled query is
\* accepted
findFails(catalog, flt) ==
  "$text" \in DOMAIN flt /\ ~(\E i \in catalog : i.name = TEXT_INDEX_NAME)

\* ------------------------------------------------------------------------
\* Spring startup: DatabaseVerification
\* ------------------------------------------------------------------------

\* the bean is constructed with the injected database handle
DatabaseVerification ==
  /\ impl = "spring"
  /\ pc = "start"
  /\ pc' = "connected"
  /\ UNCHANGED <<impl, log, indexes, vr, request, findCall, response, movies, dbOps, clients, runs, thrown, awaited>>

\* a catch block that logs and rethrows: the bean's initialisation fails
\* and the application context is not started
verifyDatabaseCatchRethrow(lg) ==
  [log |-> Append(lg, Entry("ERROR", "Database verification failed")),
   pc  |-> "aborted"]

\* catch (Exception e) of verifyDatabase: log and return normally
verifyDatabaseCatch(lg) ==
  [log |-> Append(lg, Entry("ERROR", "Database verification failed")),
   pc  |-> "verified"]

\* no catch around createIndex: the exception leaves createTextSearchIndex
createTextSearchIndexNoCatch(lg) == [log |-> lg, thrown |-> TRUE]

\* catch (Exception e) of createTextSearchIndex: log and return normally
createTextSearchIndexCatch(lg) ==
  [log    |-> lg \o <<Entry("ERROR", "Could not create text search index"),
                      Entry("WARN", "Text search functionality may not work without the index")>>,
   thrown |-> FALSE]

\* the empty collection reported as an error
emptyCollectionLogError(n) ==
  IF n = 0 THEN <<Entry("ERROR", "Movies collection is empty")>> ELSE << >>

\* if (count == 0) logger.warn(...)
emptyCollectionLog(n) ==
  IF n = 0 THEN <<Entry("WARN", "Movies collection is empty")>> ELSE << >>

\* @PostConstruct verifyDatabase, up to the count read
verifyDatabase ==
  /\ impl = "spring"
  /\ pc = "connected"
  /\ pc' = "counting"
  /\ log' = Append(log, Entry("INFO", "Starting database verification"))
  /\ UNCHANGED <<impl, indexes, vr, request, findCall, response, movies, dbOps, clients, runs, thrown, awaited>>

\* a verifier that creates the index although the count read threw
verifyMoviesCollectionThenIndex ==
  /\ impl = "spring"
  /\ pc = "counting"
  /\ \/ \E n \in 0..MaxCount :
          /\ vr' = [vr EXCEPT !.count = "ok", !.n = n]
          /\ log' = Append(log, Entry("INFO", "Movies collection found")) \o emptyCollectionLog(n)
          /\ pc' = "indexing"
          /\ UNCHANGED indexes
     \/ /\ vr' = [vr EXCEPT !.count = "threw", !.index = "created"]
        /\ indexes' = createIndex(indexes, TextIndex)
        /\ log' = verifyDatabaseCatch(log).log
        /\ pc' = verifyDatabaseCatch(log).pc
  /\ UNCHANGED <<impl, request, findCall, response, movies, dbOps, clients, runs, thrown, awaited>>

\* verifyMoviesCollection: estimatedDocumentCount() returns or throws
verifyMoviesCollection ==
  /\ impl = "spring"
  /\ pc = "counting"
  /\ \/ \E n \in 0..MaxCount :
          /\ vr' = [vr EXCEPT !.count = "ok", !.n = n]
          /\ log' = Append(log, Entry("INFO", "Movies collection found")) \o emptyCollectionLog(n)
          /\ pc' = "indexing"
     \/ /\ vr' = [vr EXCEPT !.count = "threw", !.index = "skipped"]
        /\ log' = verifyDatabaseCatch(log).log
        /\ pc' = verifyDatabaseCatch(log).pc
  /\ UNCHANGED <<impl, indexes, request, findCall, response, movies, dbOps, clients, runs, thrown, awaited>>

\* a verifier that attempts the index creation again after it threw
createTextSearchIndexRetry ==
  /\ impl = "spring"
  /\ pc = "indexing"
  /\ \/ /\ indexes' = createIndex(indexes, TextIndex)
        /\ vr' = [vr EXCEPT !.index = "created"]
        /\ log' = log \o <<Entry("INFO", "Text search index created/verified"),
                           Entry("INFO", "Database verification completed successfully")>>
        /\ pc' = "verified"
     \/ /\ UNCHANGED indexes
        /\ vr' = [vr EXCEPT !.index = "threw"]
        /\ log' = createTextSearchIndexCatch(log).log
        /\ pc' = IF vr.index = "pending" THEN "indexing" ELSE "verified"
  /\ UNCHANGED <<impl, request, findCall, response, movies, dbOps, clients, runs, thrown, awaited>>

\* createTextSearchIndex, then the rest of verifyDatabase
createTextSearchIndex ==
  /\ impl = "spring"
  /\ pc = "indexing"
  /\ \/ /\ indexes' = createIndex(indexes, TextIndex)
        /\ vr' = [vr EXCEPT !.index = "created"]
        /\ log' = log \o <<Entry("INFO", "Text search index created/verified"),
                           Entry("INFO", "Database verification completed successfully")>>
        /\ pc' = "verified"
     \/ /\ UNCHANGED indexes
        /\ vr' = [vr EXCEPT !.index = "threw"]
        /\ LET r == createTextSearchIndexCatch(log)
           IN  IF r.thrown
               THEN /\ log' = verifyDatabaseCatch(r.log).log
                    /\ pc' = verifyDatabaseCatch(r.log).pc
               ELSE /\ log' = Append(r.log, Entry("INFO", "Database verification completed successfully"))
                    /\ pc' = "verified"
  /\ UNCHANGED <<impl, request, findCall, response, movies, dbOps, clients, runs, thrown, awaited>>

\* SpringApplication.run: the web server starts once the context is built
SpringApplicationRun ==
  /\ impl = "spring"
  /\ pc = "verified"
  /\ pc' = "listening"
  /\ UNCHANGED <<impl, log, indexes, vr, request, findCall, response, movies, dbOps, clients, runs, thrown, awaited>>

\* ------------------------------------------------------------------------
\* Express startup: startServer
\* ------------------------------------------------------------------------

\* verifyRequirements of config/database: count, warning on an empty
\* collection, index creation; every failure is logged and swallowed
verifyRequirements(lg, catalog, countOutcome, n, indexOk) ==
  IF countOutcome = "threw"
  THEN [threw |-> FALSE, catalog |-> catalog,
        vr  |-> [count |-> "threw", n |-> 0, index |-> "skipped"],
        log |-> Append(lg, Entry("ERROR", "Requirements verification failed"))]
  ELSE [threw |-> FALSE,
        catalog |-> IF indexOk THEN createIndex(catalog, TextIndex) ELSE catalog,
        vr  |-> [count |-> "ok", n |-> n, index |-> IF indexOk THEN "created" ELSE "threw"],
        log |-> lg \o emptyCollectionLog(n)
                   \o (IF indexOk
                       THEN <<Entry("INFO", "Text search index created/verified")>>
                       ELSE <<Entry("ERROR", "Could not create text search index"),
                              Entry("WARN", "Text search functionality may not work without the index")>>)]

\* await connectToDatabase(): resolves, or rejects into the catch block
connectToDatabase ==
  /\ impl \in ExpressImpls
  /\ pc = "start"
  /\ \/ /\ pc' = "connected"
        /\ log' = log \o <<Entry("INFO", "Starting MongoDB Sample MFlix API"),
                           Entry("INFO", "Connected to MongoDB successfully")>>
     \/ /\ pc' = "exited"
        /\ log' = log \o <<Entry("INFO", "Starting MongoDB Sample MFlix API"),
                           Entry("ERROR", "Failed to start server")>>
  /\ UNCHANGED <<impl, indexes, vr, request, findCall, response, movies, dbOps, clients, runs, thrown, awaited>>

\* await verifyRequirements(), inside the try of startServer
startServerVerify ==
  /\ impl \in ExpressImpls
  /\ pc = "connected"
  /\ \E countOutcome \in CountOutcomes, n \in 0..MaxCount, indexOk \in BOOLEAN :
       /\ countOutcome = "threw" => (n = 0 /\ indexOk)
       /\ LET r == verifyRequirements(log, indexes, countOutcome, n, indexOk)
          IN  /\ indexes' = r.catalog
              /\ vr' = r.vr
              /\ IF r.threw
                 THEN /\ log' = Append(r.log, Entry("ERROR", "Failed to start server"))
                      /\ pc' = "exited"
                 ELSE /\ log' = Append(r.log, Entry("INFO", "All requirements verified successfully"))
                      /\ pc' = "verified"
  /\ UNCHANGED <<impl, request, findCall, response, movies, dbOps, clients, runs, thrown, awaited>>

\* app.listen called without awaiting verifyRequirements
listenEarly ==
  /\ impl \in ExpressImpls
  /\ pc \in {"connected", "verified"}
  /\ pc' = "listening"
  /\ log' = Append(log, Entry("INFO", "Server running"))
  /\ UNCHANGED <<impl, indexes, vr, request, findCall, response, movies, dbOps, clients, runs, thrown, awaited>>

\* app.listen(PORT, ...)
listen ==
  /\ impl \in ExpressImpls
  /\ pc = "verified"
  /\ pc' = "listening"
  /\ log' = Append(log, Entry("INFO", "Server running"))
  /\ UNCHANGED <<impl, indexes, vr, request, findCall, response, movies, dbOps, clients, runs, thrown, awaited>>

\* the process is started again against the same database: the catalog
\* and the documents persist, the process state does not
restart ==
  /\ pc \in {"listening", "exited"}
  /\ request = << >>
  /\ \A c \in Clients : clients[c].pc = "idle"
  /\ runs < MaxRuns
  /\ runs' = runs + 1
  /\ pc' = "start"
  /\ log' = << >>
  /\ vr' = [count |-> "pending", n |-> 0, index |-> "pending"]
  /\ UNCHANGED <<impl, indexes, request, findCall, response, movies, dbOps, clients, thrown, awaited>>


\* ------------------------------------------------------------------------
\* Responses
\* ------------------------------------------------------------------------

\* res.json(createSuccessResponse(...)) / ResponseEntity.ok(...)
createSuccessResponse == [status |-> 200, success |-> TRUE, code |-> "NONE"]

\* an error object: its class, its message as the parts it was put
\* together from, and the server's error code (0: none)
Error(name, message) == [name |-> name, message |-> <<message>>, code |-> 0]

\* new Error(`${prefix}${error.message}`)
Wrapped(prefix, error) == [name |-> "Error", message |-> <<prefix>> \o error.message, code |-> 0]

\* the error a failing database call rejects with: a MongoError of the
\* Node.js driver, a MongoException of the Java driver
MongoError == Error("MongoError", "Database error")

\* the server rejects a write that collides with a unique key
DuplicateKeyError ==
  [name |-> "MongoError", message |-> <<"E11000 duplicate key error">>, code |-> 11000]

\* handleMongoError: the response by the server's error code
handleMongoError(err) ==
  IF err.code = 11000
  THEN [status |-> 409, success |-> FALSE, code |-> "DUPLICATE_KEY_ERROR"]
  ELSE IF err.code = 121
  THEN [status |-> 400, success |-> FALSE, code |-> "DOCUMENT_VALIDATION_ERROR"]
  ELSE [status |-> 500, success |-> FALSE, code |-> "MONGODB_ERROR"]

\* errorHandler middleware: createErrorResponse(err) by the error's type;
\* a SyntaxError thrown inside a handler carries no body
errorHandler(err) ==
  IF err.name = "MongoError"
  THEN handleMongoError(err)
  ELSE IF err.name = "ValidationError"
  THEN [status |-> 400, success |-> FALSE, code |-> "VALIDATION_ERROR"]
  ELSE [status |-> 500, success |-> FALSE, code |-> "INTERNAL_SERVER_ERROR"]

\* GlobalExceptionHandler.handleGenericException
handleGenericException == [status |-> 500, success |-> FALSE, code |-> "INTERNAL_ERROR"]

\* res.status(status).json(createErrorResponse(message, code))
createErrorResponse(status, code) == [status |-> status, success |-> FALSE, code |-> code]

\* GlobalExceptionHandler.handleValidationException
handleValidationException == [status |-> 400, success |-> FALSE, code |-> "VALIDATION_ERROR"]

\* GlobalExceptionHandler.handleResourceNotFoundException
handleResourceNotFoundException ==
  [status |-> 404, success |-> FALSE, code |-> "RESOURCE_NOT_FOUND"]

\* GlobalExceptionHandler.handleMongoWriteException
handleMongoWriteException(ex) ==
  IF ex.code = 11000
  THEN [status |-> 409, success |-> FALSE, code |-> "DUPLICATE_KEY"]
  ELSE [status |-> 500, success |-> FALSE, code |-> "DATABASE_ERROR"]

\* the @ExceptionHandler method Spring selects for an exception
GlobalExceptionHandler(ex) ==
  IF ex.name = "ResourceNotFoundException" THEN handleResourceNotFoundException
  ELSE IF ex.name = "ValidationException" THEN handleValidationException
  ELSE IF ex.name = "MongoWriteException" THEN handleMongoWriteException(ex)
  ELSE handleGenericException

FindArgs(flt, srt, lim, skp) == [filter |-> flt, sort |-> srt, limit |-> lim, skip |-> skp]

\* ------------------------------------------------------------------------
\* GET /api/movies
\* ------------------------------------------------------------------------

Idle ==
  /\ pc = "listening"
  /\ response = << >>
  /\ \A c \in Clients : clients[c].pc = "idle"

\* the body of the Express handler from the filter to the response, for the
\* pagination pair a revision computes; a throw goes through asyncHandler
\* to errorHandler
ExpressHandler(query, lim, skp, catalog) ==
  IF Truthy(query.genre) /\ ~RegExpCompiles(query.genre[1])
  THEN LET err == Error("SyntaxError", "Invalid regular expression")
       IN  [findCall |-> << >>, response |-> Some(errorHandler(err)), thrown |-> Some(err)]
  ELSE LET call == FindArgs(filter(query), sort(query.sortBy, query.sortOrder), lim, skp)
       IN  IF findFails(catalog, call.filter)
           THEN [findCall |-> Some(call), response |-> Some(errorHandler(MongoError)),
                 thrown |-> Some(MongoError)]
           ELSE [findCall |-> Some(call), response |-> Some(createSuccessResponse),
                 thrown |-> undefined]

\* controller getAllMovies
getAllMovies ==
  /\ impl = "express"
  /\ Idle
  /\ \E f \in FilterParts, p \in PagingParts :
       LET query == RawSearchQuery(f, p)
           r     == ExpressHandler(query, limitNum(query.limit), skipNum(query.skip), indexes)
       IN  /\ request' = Some(query)
           /\ findCall' = r.findCall
           /\ response' = r.response
           /\ thrown' = r.thrown
           /\ dbOps' = (IF r.findCall = << >> THEN << >> ELSE <<"find">>)
           /\ movies' = (IF r.findCall = << >> THEN movies
                         ELSE find(movies, r.findCall[1]).movies)
  /\ UNCHANGED <<impl, pc, log, indexes, vr, clients, runs, awaited>>

\* controller getAllMovies, earlier revision
getAllMovies0 ==
  /\ impl = "express0"
  /\ Idle
  /\ \E f \in FilterParts, p \in PagingParts :
       LET query == RawSearchQuery(f, p)
           r     == ExpressHandler(query, limitNum0(query.limit), skipNum0(query.skip), indexes)
       IN  /\ request' = Some(query)
           /\ findCall' = r.findCall
           /\ response' = r.response
           /\ thrown' = r.thrown
           /\ dbOps' = (IF r.findCall = << >> THEN << >> ELSE <<"find">>)
           /\ movies' = (IF r.findCall = << >> THEN movies
                         ELSE find(movies, r.findCall[1]).movies)
  /\ UNCHANGED <<impl, pc, log, indexes, vr, clients, runs, awaited>>

\* MovieControllerImpl.getAllMovies and MovieServiceImpl.getAllMovies
SpringHandler(query, catalog) ==
  LET msq == MovieSearchQuery(query)
  IN  IF TypeMismatch(msq)
      THEN LET ex == Error("MethodArgumentTypeMismatchException", "Failed to convert value")
           IN  [findCall |-> << >>, response |-> Some(GlobalExceptionHandler(ex)),
                thrown |-> Some(ex)]
      ELSE IF NotBlank(msq.genre) /\ ~RegExpCompiles(msq.genre[1])
      THEN LET ex == Error("PatternSyntaxException", "Invalid regular expression")
           IN  [findCall |-> << >>, response |-> Some(GlobalExceptionHandler(ex)),
                thrown |-> Some(ex)]
      ELSE LET call == FindArgs(buildFilter(msq), buildSort(msq.sortBy, msq.sortOrder),
                                serviceLimit(msq.limit.value), serviceSkip(msq.skip.value))
           IN  IF findFails(catalog, call.filter)
               THEN [findCall |-> Some(call),
                     response |-> Some(GlobalExceptionHandler(MongoError)),
                     thrown |-> Some(MongoError)]
               ELSE [findCall |-> Some(call), response |-> Some(createSuccessResponse),
                     thrown |-> undefined]

MovieControllerImpl_getAllMovies ==
  /\ impl = "spring"
  /\ Idle
  /\ \E f \in FilterParts, p \in PagingParts :
       LET query == RawSearchQuery(f, p)
           r     == SpringHandler(query, indexes)
       IN  /\ request' = Some(query)
           /\ findCall' = r.findCall
           /\ response' = r.response
           /\ thrown' = r.thrown
           /\ dbOps' = (IF r.findCall = << >> THEN << >> ELSE <<"find">>)
           /\ movies' = (IF r.findCall = << >> THEN movies
                         ELSE find(movies, r.findCall[1]).movies)
  /\ UNCHANGED <<impl, pc, log, indexes, vr, clients, runs, awaited>>

\* the response has been sent: the request's SearchCriteria, filter and
\* sort are discarded
RequestDone ==
  /\ pc = "listening"
  /\ response # << >>
  /\ request' = << >>
  /\ findCall' = << >>
  /\ response' = << >>
  /\ dbOps' = << >>
  /\ thrown' = << >>
  /\ awaited' = << >>
  /\ UNCHANGED <<impl, pc, log, indexes, vr, movies, clients, runs>>

\* ------------------------------------------------------------------------
\* The handlers that take an id or a filter in the body
\* ------------------------------------------------------------------------

\* req.params and req.body of a request to one of these handlers
CrudRequest(op, id, body) == [op |-> op, id |-> id, body |-> body]

Outcome(coll, ops, resp) ==
  [movies |-> coll, dbOps |-> ops, response |-> resp, thrown |-> undefined,
   awaited |-> undefined]

\* the handler threw err: asyncHandler hands it to errorHandler
ExpressThrows(coll, ops, err) ==
  [movies |-> coll, dbOps |-> ops, response |-> errorHandler(err), thrown |-> Some(err),
   awaited |-> undefined]

\* the service threw ex: Spring hands it to the GlobalExceptionHandler
SpringThrows(coll, ops, ex) ==
  [movies |-> coll, dbOps |-> ops, response |-> GlobalExceptionHandler(ex), thrown |-> Some(ex),
   awaited |-> undefined]

InvalidIdException == Error("ValidationException", "Invalid movie ID format")

MovieNotFoundException == Error("ResourceNotFoundException", "Movie not found")

\* the slot of the request in flight filled by a handler that ran to its
\* response
Handled(req, out) ==
  /\ request' = Some(req)
  /\ movies' = out.movies
  /\ dbOps' = out.dbOps
  /\ response' = Some(out.response)
  /\ thrown' = out.thrown
  /\ awaited' = out.awaited
  /\ UNCHANGED <<impl, pc, log, indexes, vr, findCall, clients, runs>>

\* the body of getMovieById run against the collection coll
getMovieByIdHandler(coll, id) ==
  IF ~ObjectIdIsValid(id)
  THEN Outcome(coll, << >>, createErrorResponse(400, "INVALID_OBJECT_ID"))
  ELSE LET r == findOne(coll, id)
       IN  Outcome(r.movies, <<"findOne">>,
                   IF r.doc = undefined
                   THEN createErrorResponse(404, "MOVIE_NOT_FOUND")
                   ELSE createSuccessResponse)

\* GET /api/movies/:id
getMovieById ==
  /\ impl \in ExpressImpls
  /\ Idle
  /\ \E id \in idValues :
       Handled(CrudRequest("getMovieById", id, << >>), getMovieByIdHandler(movies, id))

\* the body of updateMovie run against the collection coll, its two
\* database calls one after the other
updateMovieHandler(coll, id, updateData) ==
  IF ~ObjectIdIsValid(id)
  THEN Outcome(coll, << >>, createErrorResponse(400, "INVALID_OBJECT_ID"))
  ELSE IF DOMAIN updateData = {}
  THEN Outcome(coll, << >>, createErrorResponse(400, "NO_UPDATE_DATA"))
  ELSE LET r == updateOne(coll, id, updateData)
       IN  IF r.matchedCount = 0
           THEN Outcome(r.movies, <<"updateOne">>,
                        createErrorResponse(404, "MOVIE_NOT_FOUND"))
           ELSE Outcome(findOne(r.movies, id).movies, <<"updateOne", "findOne">>,
                        createSuccessResponse)

\* PUT /api/movies/:id
updateMovie ==
  /\ impl \in ExpressImpls
  /\ Idle
  /\ \E id \in idValues, updateData \in updateDataValues :
       Handled(CrudRequest("updateMovie", id, updateData),
               updateMovieHandler(movies, id, updateData))

\* the body of deleteMovie run against the collection coll
deleteMovieHandler(coll, id) ==
  IF ~ObjectIdIsValid(id)
  THEN Outcome(coll, << >>, createErrorResponse(400, "INVALID_OBJECT_ID"))
  ELSE LET r == deleteOne(coll, id)
       IN  Outcome(r.movies, <<"deleteOne">>,
                   IF r.deletedCount = 0
                   THEN createErrorResponse(404, "MOVIE_NOT_FOUND")
                   ELSE createSuccessResponse)

\* DELETE /api/movies/:id
deleteMovie ==
  /\ impl \in ExpressImpls
  /\ Idle
  /\ \E id \in idValues :
       Handled(CrudRequest("deleteMovie", id, << >>), deleteMovieHandler(movies, id))

\* the body of deleteMoviesBatch run against the collection coll
deleteMoviesBatchHandler(coll, body) ==
  IF "filter" \notin DOMAIN body \/ DOMAIN body["filter"] = {}
  THEN Outcome(coll, << >>, createErrorResponse(400, "MISSING_FILTER"))
  ELSE Outcome(deleteMany(coll, body["filter"]).movies, <<"deleteMany">>,
               createSuccessResponse)

\* DELETE /api/movies
deleteMoviesBatch ==
  /\ impl \in ExpressImpls
  /\ Idle
  /\ \E body \in deleteBodyValues :
       Handled(CrudRequest("deleteMoviesBatch", undefined, body),
               deleteMoviesBatchHandler(movies, body))

\* MovieControllerImpl.getMovieById and MovieServiceImpl.getMovieById
MovieServiceImpl_getMovieById ==
  /\ impl = "spring"
  /\ Idle
  /\ \E id \in idValues :
       Handled(CrudRequest("getMovieById", id, << >>),
         IF ~ObjectIdIsValid(id)
         THEN SpringThrows(movies, << >>, InvalidIdException)
         ELSE LET r == findOne(movies, id)
              IN  IF r.doc = undefined
                  THEN SpringThrows(r.movies, <<"findOne">>, MovieNotFoundException)
                  ELSE Outcome(r.movies, <<"findOne">>, createSuccessResponse))

\* MovieControllerImpl.updateMovie and MovieServiceImpl.updateMovie
MovieServiceImpl_updateMovie ==
  /\ impl = "spring"
  /\ Idle
  /\ \E id \in idValues, updateData \in updateDataValues :
       Handled(CrudRequest("updateMovie", id, updateData),
         IF ~ObjectIdIsValid(id)
         THEN SpringThrows(movies, << >>, InvalidIdException)
         ELSE IF DOMAIN updateData = {}
         THEN SpringThrows(movies, << >>,
                           Error("ValidationException", "No update data provided"))
         ELSE LET r == updateOne(movies, id, updateData)
              IN  IF r.matchedCount = 0
                  THEN SpringThrows(r.movies, <<"updateOne">>, MovieNotFoundException)
                  ELSE Outcome(findOne(r.movies, id).movies, <<"updateOne", "findOne">>,
                               createSuccessResponse))

\* MovieControllerImpl.deleteMovie and MovieServiceImpl.deleteMovie
MovieServiceImpl_deleteMovie ==
  /\ impl = "spring"
  /\ Idle
  /\ \E id \in idValues :
       Handled(CrudRequest("deleteMovie", id, << >>),
         IF ~ObjectIdIsValid(id)
         THEN SpringThrows(movies, << >>, InvalidIdException)
         ELSE LET r == deleteOne(movies, id)
              IN  IF r.deletedCount = 0
                  THEN SpringThrows(r.movies, <<"deleteOne">>, MovieNotFoundException)
                  ELSE Outcome(r.movies, <<"deleteOne">>, createSuccessResponse))

\* MovieControllerImpl.deleteMoviesBatch and MovieServiceImpl.deleteMoviesBatch:
\* new Document(body.get("filter")) throws NullPointerException when the
\* body has no filter
MovieServiceImpl_deleteMoviesBatch ==
  /\ impl = "spring"
  /\ Idle
  /\ \E body \in deleteBodyValues :
       Handled(CrudRequest("deleteMoviesBatch", undefined, body),
         IF "filter" \notin DOMAIN body
         THEN SpringThrows(movies, << >>, Error("NullPointerException", "null"))
         ELSE IF DOMAIN body["filter"] = {}
         THEN SpringThrows(movies, << >>,
                           Error("ValidationException",
                                 "Filter object is required and cannot be empty"))
         ELSE Outcome(deleteMany(movies, body["filter"]).movies, <<"deleteMany">>,
                      createSuccessResponse))

\* ------------------------------------------------------------------------
\* DELETE /api/movies/:id/find-and-delete, requests running concurrently
\* ------------------------------------------------------------------------

ClientStep(c, cl) ==
  /\ clients' = [clients EXCEPT ![c] = cl]
  /\ UNCHANGED <<impl, pc, log, indexes, vr, request, findCall, response, movies, dbOps, runs, thrown, awaited>>

Accepting == pc = "listening" /\ response = << >>

\* findAndDeleteMovie up to the await: the id check, then the command is
\* sent to the database
findAndDeleteMovie(c) ==
  /\ impl \in ExpressImpls
  /\ Accepting
  /\ clients[c].pc = "idle"
  /\ \E id \in idValues :
       ClientStep(c,
         IF ~ObjectIdIsValid(id)
         THEN [pc |-> "responded", id |-> Some(id), doc |-> undefined,
               response |-> Some(createErrorResponse(400, "INVALID_OBJECT_ID"))]
         ELSE [pc |-> "awaiting", id |-> Some(id), doc |-> undefined, response |-> undefined])

\* findAndDeleteMovie after the await
findAndDeleteMovieRespond(c) ==
  /\ impl \in ExpressImpls
  /\ clients[c].pc = "returned"
  /\ ClientStep(c, [clients[c] EXCEPT
       !.pc = "responded",
       !.response = Some(IF clients[c].doc = undefined
                         THEN createErrorResponse(404, "MOVIE_NOT_FOUND")
                         ELSE createSuccessResponse)])

\* MovieServiceImpl.findAndDeleteMovie up to the repository call
MovieServiceImpl_findAndDeleteMovie(c) ==
  /\ impl = "spring"
  /\ Accepting
  /\ clients[c].pc = "idle"
  /\ \E id \in idValues :
       ClientStep(c,
         IF ~ObjectIdIsValid(id)
         THEN [pc |-> "responded", id |-> Some(id), doc |-> undefined,
               response |-> Some(handleValidationException)]
         ELSE [pc |-> "awaiting", id |-> Some(id), doc |-> undefined, response |-> undefined])

\* orElseThrow, then MovieControllerImpl.findAndDeleteMovie's response
MovieControllerImpl_findAndDeleteMovie(c) ==
  /\ impl = "spring"
  /\ clients[c].pc = "returned"
  /\ ClientStep(c, [clients[c] EXCEPT
       !.pc = "responded",
       !.response = Some(IF clients[c].doc = undefined
                         THEN handleResourceNotFoundException
                         ELSE createSuccessResponse)])

\* the database executes one client's findOneAndDelete
findOneAndDeleteReturns(c) ==
  /\ clients[c].pc = "awaiting"
  /\ LET r == findOneAndDelete(movies, clients[c].id[1])
     IN  /\ movies' = r.movies
         /\ clients' = [clients EXCEPT ![c].pc = "returned", ![c].doc = r.doc]
  /\ UNCHANGED <<impl, pc, log, indexes, vr, request, findCall, response, dbOps, runs, thrown, awaited>>

\* every request in flight has been answered: the connections are closed
ClientsDone ==
  /\ \A c \in Clients : clients[c].pc \in {"idle", "responded"}
  /\ \E c \in Clients : clients[c].pc = "responded"
  /\ clients' = [c \in Clients |-> IdleClient]
  /\ UNCHANGED <<impl, pc, log, indexes, vr, request, findCall, response, movies, dbOps, runs, thrown, awaited>>


\* ------------------------------------------------------------------------
\* Specification
\* ------------------------------------------------------------------------

Startup ==
  \/ DatabaseVerification
  \/ verifyDatabase
  \/ verifyMoviesCollection
  \/ createTextSearchIndex
  \/ SpringApplicationRun
  \/ connectToDatabase
  \/ startServerVerify
  \/ listen

Next ==
  \/ Startup
  \/ getAllMovies
  \/ getAllMovies0
  \/ MovieControllerImpl_getAllMovies
  \/ RequestDone

Spec == Init /\ [][Next]_vars

\* startup is sequential code that awaits each step: it keeps running
\* until the server listens or the process exits
FairSpec == Spec /\ WF_vars(Startup)

\* the startup sequence run again and again against one database
RestartNext ==
  \/ Startup
  \/ restart

RestartSpec == Init /\ [][RestartNext]_vars

\* the log of a start in which the count read returned and the index was
\* created
StartupLog(i) ==
  IF i = "spring"
  THEN <<Entry("INFO", "Starting database verification"),
         Entry("INFO", "Movies collection found"),
         Entry("INFO", "Text search index created/verified"),
         Entry("INFO", "Database verification completed successfully")>>
  ELSE <<Entry("INFO", "Starting MongoDB Sample MFlix API"),
         Entry("INFO", "Connected to MongoDB successfully"),
         Entry("INFO", "Text search index created/verified"),
         Entry("INFO", "All requirements verified successfully"),
         Entry("INFO", "Server running")>>

\* the server as it starts to listen after such a start
ServingInit ==
  /\ impl \in Impls
  /\ pc = "listening"
  /\ log = StartupLog(impl)
  /\ indexes = {TextIndex}
  /\ vr = [count |-> "ok", n |-> 1, index |-> "created"]
  /\ request = << >>
  /\ findCall = << >>
  /\ response = << >>
  /\ movies = SampleCollection
  /\ dbOps = << >>
  /\ clients = [c \in Clients |-> IdleClient]
  /\ runs = 1
  /\ thrown = << >>
  /\ awaited = << >>

ServingNext ==
  \/ getAllMovies
  \/ getAllMovies0
  \/ MovieControllerImpl_getAllMovies
  \/ RequestDone
  \/ getMovieById
  \/ updateMovie
  \/ deleteMovie
  \/ deleteMoviesBatch
  \/ MovieServiceImpl_getMovieById
  \/ MovieServiceImpl_updateMovie
  \/ MovieServiceImpl_deleteMovie
  \/ MovieServiceImpl_deleteMoviesBatch
  \/ \E c \in Clients : findAndDeleteMovie(c)
  \/ \E c \in Clients : findAndDeleteMovieRespond(c)
  \/ \E c \in Clients : MovieServiceImpl_findAndDeleteMovie(c)
  \/ \E c \in Clients : MovieControllerImpl_findAndDeleteMovie(c)
  \/ \E c \in Clients : findOneAndDeleteReturns(c)
  \/ ClientsDone

\* the requests served by a server that has started
ServingSpec == ServingInit /\ [][ServingNext]_vars

\* one request of MatchQueries has arrived at a server that has started
MatchInit ==
  /\ impl \in Impls
  /\ pc = "listening"
  /\ log = StartupLog(impl)
  /\ indexes = {TextIndex}
  /\ vr = [count |-> "ok", n |-> 1, index |-> "created"]
  /\ request \in {Some(query) : query \in MatchQueries}
  /\ findCall = << >>
  /\ response = << >>
  /\ movies = SampleCollection
  /\ dbOps = << >>
  /\ clients = [c \in Clients |-> IdleClient]
  /\ runs = 1
  /\ thrown = << >>
  /\ awaited = << >>

\* the handler's result for the request that has arrived
Respond(r) ==
  /\ request # << >>
  /\ response = << >>
  /\ findCall' = r.findCall
  /\ response' = r.response
  /\ thrown' = r.thrown
  /\ dbOps' = (IF r.findCall = << >> THEN << >> ELSE <<"find">>)
  /\ movies' = (IF r.findCall = << >> THEN movies ELSE find(movies, r.findCall[1]).movies)
  /\ UNCHANGED <<impl, pc, log, indexes, vr, request, clients, runs, awaited>>

getAllMoviesRespond ==
  /\ impl = "express"
  /\ request # << >>
  /\ Respond(ExpressHandler(request[1], limitNum(request[1].limit),
                            skipNum(request[1].skip), indexes))

getAllMovies0Respond ==
  /\ impl = "express0"
  /\ request # << >>
  /\ Respond(ExpressHandler(request[1], limitNum0(request[1].limit),
                            skipNum0(request[1].skip), indexes))

MovieControllerImpl_getAllMoviesRespond ==
  /\ impl = "spring"
  /\ request # << >>
  /\ Respond(SpringHandler(request[1], indexes))

MatchNext ==
  \/ getAllMoviesRespond
  \/ getAllMovies0Respond
  \/ MovieControllerImpl_getAllMoviesRespond

\* the filter of each request of MatchQueries, as each backend compiles it
MatchSpec == MatchInit /\ [][MatchNext]_vars


\* ------------------------------------------------------------------------
\* The handlers that write: POST /api/movies/batch and PATCH /api/movies
\* ------------------------------------------------------------------------

HexDigitOf(n) == <<"1", "2", "3", "4", "5", "6", "7", "8", "9", "a">>[n]

\* the _id values the driver hands out: TEST_MOVIE_ID and its successors
objectId(n) == SubSeq(TEST_MOVIE_ID, 1, 23) \o <<HexDigitOf(n)>>

\* new ObjectId(): an _id that no document of the collection has
newObjectId(coll) ==
  LET free == {n \in 1..MaxDocuments : objectId(n) \notin DOMAIN coll}
  IN  objectId(CHOOSE n \in free : \A m \in free : n <= m)

\* what can become of a write the handler awaits: it is applied and
\* acknowledged, or (write concern 0) it is not acknowledged and may or may
\* not have been applied
WriteResults ==
  {[acknowledged |-> TRUE, applied |-> TRUE],
   [acknowledged |-> FALSE, applied |-> TRUE],
   [acknowledged |-> FALSE, applied |-> FALSE]}

insertOne(coll, doc, w) ==
  [movies       |-> IF w.applied THEN (newObjectId(coll) :> doc) @@ coll ELSE coll,
   acknowledged |-> w.acknowledged,
   insertedId   |-> newObjectId(coll)]

RECURSIVE insertMany(_, _, _)
insertMany(coll, docs, w) ==
  IF docs = << >>
  THEN [movies |-> coll, acknowledged |-> w.acknowledged, insertedCount |-> 0]
  ELSE LET r == insertMany(insertOne(coll, Head(docs), w).movies, Tail(docs), w)
       IN  [r EXCEPT !.insertedCount = @ + 1]

\* { $set: update } on every document the filter matches
updateMany(coll, flt, update) ==
  LET hit == {k \in DOMAIN coll : matchesFilter(coll[k], flt)}
  IN  [movies        |-> [k \in DOMAIN coll |-> IF k \in hit THEN update @@ coll[k] ELSE coll[k]],
       matchedCount  |-> Cardinality(hit),
       modifiedCount |-> Cardinality({k \in hit : update @@ coll[k] # coll[k]})]

\* a JSON body is an array of values or an object
JsonArray(items) == [array |-> TRUE, items |-> items]

JsonObject(fields) == [array |-> FALSE, fields |-> fields]

ArrayIsArray(body) == body.array

\* SAMPLE_MOVIES of the controller's test
SAMPLE_MOVIES ==
  <<[title |-> "Test Movie 1", year |-> 2024], [title |-> "Test Movie 2", year |-> 2024]>>

\* a movie object without a title
UNTITLED_MOVIE == [year |-> 2024]

\* req.body of POST /api/movies/batch
moviesDataValues ==
  {JsonObject(SAMPLE_MOVIE), JsonArray(<< >>), JsonArray(<<SAMPLE_MOVIES[1]>>),
   JsonArray(SAMPLE_MOVIES), JsonArray(<<SAMPLE_MOVIES[1], UNTITLED_MOVIE>>),
   JsonArray(<<UNTITLED_MOVIE>>)}

\* req.body of PATCH /api/movies
updateBatchBodyValues ==
  {<< >>,
   "filter" :> ("year" :> 2024),
   "update" :> ("title" :> "Updated Movie"),
   ("filter" :> ("year" :> 2024)) @@ ("update" :> << >>),
   ("filter" :> << >>) @@ ("update" :> ("title" :> "Updated Movie")),
   ("filter" :> ("title" :> "Test Movie")) @@ ("update" :> ("title" :> "Updated Movie")),
   ("filter" :> ("year" :> 1999)) @@ ("update" :> ("title" :> "Updated Movie"))}

\* validateRequiredFields: the fields that are undefined, null or ''
missingFields(body, requiredFields) ==
  {field \in requiredFields : field \notin DOMAIN body \/ body[field] = ""}

\* res.status(201).json(createSuccessResponse(...))
Created == [createSuccessResponse EXCEPT !.status = 201]

\* createSuccessResponse(data, message) where the data is part of what a
\* reader of the response relies on
createSuccessResponseWith(data) ==
  [status |-> 200, success |-> TRUE, code |-> "NONE", data |-> data]

\* a catch block that answers the request itself instead of throwing
catchRespond(prefix, out) ==
  IF out.thrown = undefined
  THEN out
  ELSE Outcome(out.movies, out.dbOps, createSuccessResponse)

\* catch (error) { throw new Error(`${prefix}${error.message}`) } around the
\* part of a handler that ends in out
catchRethrow(prefix, out) ==
  IF out.thrown = undefined
  THEN out
  ELSE ExpressThrows(out.movies, out.dbOps, Wrapped(prefix, out.thrown[1]))

\* the index of the first movie object of the array that lacks a title
firstUntitled(items) ==
  CHOOSE i \in 1..Len(items) :
    /\ missingFields(items[i], {"title"}) # {}
    /\ \A j \in 1..(i - 1) : missingFields(items[j], {"title"}) = {}

\* createMoviesBatch from insertMany on
insertMoviesBatch(coll, items, w) ==
  LET r == insertMany(coll, items, w)
  IN  IF ~r.acknowledged
      THEN ExpressThrows(r.movies, <<"insertMany">>,
             Error("Error", "Batch movie insertion was not acknowledged by the database"))
      ELSE Outcome(r.movies, <<"insertMany">>, Created)

\* createMoviesBatch up to insertMany: the outcome when the body is turned
\* down, nothing otherwise
validateMoviesBatch(coll, moviesData) ==
  IF ~ArrayIsArray(moviesData) \/ Len(moviesData.items) = 0
  THEN Some(Outcome(coll, << >>, createErrorResponse(400, "INVALID_INPUT")))
  ELSE IF \E i \in 1..Len(moviesData.items) : missingFields(moviesData.items[i], {"title"}) # {}
  THEN Some(ExpressThrows(coll, << >>,
              Wrapped("Movie at index " \o ToString(firstUntitled(moviesData.items) - 1) \o ": ",
                      Error("Error", "Missing required fields: title"))))
  ELSE undefined

\* the body of createMoviesBatch run against the collection coll
createMoviesBatchHandler(coll, moviesData, w) ==
  IF validateMoviesBatch(coll, moviesData) # undefined
  THEN validateMoviesBatch(coll, moviesData)[1]
  ELSE insertMoviesBatch(coll, moviesData.items, w)

\* the same in the earlier revision, which catches and rethrows around the
\* database section
createMoviesBatchHandler0(coll, moviesData, w) ==
  IF validateMoviesBatch(coll, moviesData) # undefined
  THEN validateMoviesBatch(coll, moviesData)[1]
  ELSE catchRethrow("Failed to create movies: ", insertMoviesBatch(coll, moviesData.items, w))

\* the documents of the body fit into the collection of the model
Fits(coll, moviesData) ==
  ArrayIsArray(moviesData) => Cardinality(DOMAIN coll) + Len(moviesData.items) <= MaxDocuments

\* POST /api/movies/batch
createMoviesBatch ==
  /\ impl = "express"
  /\ Idle
  /\ \E moviesData \in moviesDataValues, w \in WriteResults :
       /\ Fits(movies, moviesData)
       /\ Handled(CrudRequest("createMoviesBatch", undefined, moviesData),
                  createMoviesBatchHandler(movies, moviesData, w))

\* POST /api/movies/batch, earlier revision
createMoviesBatch0 ==
  /\ impl = "express0"
  /\ Idle
  /\ \E moviesData \in moviesDataValues, w \in WriteResults :
       /\ Fits(movies, moviesData)
       /\ Handled(CrudRequest("createMoviesBatch", undefined, moviesData),
                  createMoviesBatchHandler0(movies, moviesData, w))

\* MovieControllerImpl.createMoviesBatch and MovieServiceImpl.createMoviesBatch:
\* a body that is no array cannot be read as List<CreateMovieRequest>
MovieServiceImpl_createMoviesBatchHandler(coll, requests, w) ==
  IF ~ArrayIsArray(requests)
  THEN SpringThrows(coll, << >>, Error("HttpMessageNotReadableException", "JSON parse error"))
  ELSE IF Len(requests.items) = 0
  THEN SpringThrows(coll, << >>,
         Error("ValidationException", "Request body must be a non-empty array of movie objects"))
  ELSE IF \E i \in 1..Len(requests.items) : missingFields(requests.items[i], {"title"}) # {}
  THEN SpringThrows(coll, << >>,
         [name |-> "ValidationException", code |-> 0,
          message |-> <<"Movie at index " \o ToString(firstUntitled(requests.items) - 1) \o ": ",
                        "Title is required">>])
  ELSE LET r == insertMany(coll, requests.items, w)
       IN  IF ~r.acknowledged
           THEN SpringThrows(r.movies, <<"insertMany">>,
                  Error("RuntimeException",
                        "Batch movie insertion was not acknowledged by the database"))
           ELSE Outcome(r.movies, <<"insertMany">>, Created)

MovieServiceImpl_createMoviesBatch ==
  /\ impl = "spring"
  /\ Idle
  /\ \E requests \in moviesDataValues, w \in WriteResults :
       /\ Fits(movies, requests)
       /\ Handled(CrudRequest("createMoviesBatch", undefined, requests),
                  MovieServiceImpl_createMoviesBatchHandler(movies, requests, w))

\* the body of updateMoviesBatch run against the collection coll
updateMoviesBatchHandler(coll, body) ==
  IF "filter" \notin DOMAIN body \/ "update" \notin DOMAIN body
  THEN Outcome(coll, << >>, createErrorResponse(400, "MISSING_REQUIRED_FIELDS"))
  ELSE IF DOMAIN body["update"] = {}
  THEN Outcome(coll, << >>, createErrorResponse(400, "EMPTY_UPDATE"))
  ELSE LET r == updateMany(coll, body["filter"], body["update"])
       IN  Outcome(r.movies, <<"updateMany">>,
                   createSuccessResponseWith([matchedCount  |-> r.matchedCount,
                                              modifiedCount |-> r.modifiedCount]))

\* PATCH /api/movies
updateMoviesBatch ==
  /\ impl \in ExpressImpls
  /\ Idle
  /\ \E body \in updateBatchBodyValues :
       Handled(CrudRequest("updateMoviesBatch", undefined, body),
               updateMoviesBatchHandler(movies, body))

\* MovieControllerImpl.updateMoviesBatch and MovieServiceImpl.updateMoviesBatch:
\* new Document(body.get(...)) throws NullPointerException for a key the
\* body does not have
MovieServiceImpl_updateMoviesBatchHandler(coll, body) ==
  IF "filter" \notin DOMAIN body \/ "update" \notin DOMAIN body
  THEN SpringThrows(coll, << >>, Error("NullPointerException", "null"))
  ELSE IF DOMAIN body["update"] = {}
  THEN SpringThrows(coll, << >>,
         Error("ValidationException", "Update object cannot be empty"))
  ELSE LET r == updateMany(coll, body["filter"], body["update"])
       IN  Outcome(r.movies, <<"updateMany">>,
                   createSuccessResponseWith([matchedCount  |-> r.matchedCount,
                                              modifiedCount |-> r.modifiedCount]))

MovieServiceImpl_updateMoviesBatch ==
  /\ impl = "spring"
  /\ Idle
  /\ \E body \in updateBatchBodyValues :
       Handled(CrudRequest("updateMoviesBatch", undefined, body),
               MovieServiceImpl_updateMoviesBatchHandler(movies, body))

\* ------------------------------------------------------------------------
\* A database call that fails
\* ------------------------------------------------------------------------

ValidIds == {id \in idValues : ObjectIdIsValid(id)}

\* the handler runs that reach a database call, up to a call that then
\* fails: the request that passes the handler's checks, the collection as
\* the calls before the failing one left it, and the calls issued, the
\* failing one last; a call that fails leaves the collection as it was
FailingRuns(coll) ==
  LET run(req, c, ops) == [req |-> req, movies |-> c, dbOps |-> ops]
      update == "title" :> "Updated Movie"
      flt    == "filter" :> ("year" :> 2024)
  IN  {run(CrudRequest("getAllMovies", undefined, << >>), coll, <<"find">>)}
      \cup {run(CrudRequest("getMovieById", id, << >>), coll, <<"findOne">>) : id \in ValidIds}
      \cup {run(CrudRequest("createMovie", undefined, SAMPLE_MOVIE), coll, <<"insertOne">>)}
      \cup (IF Cardinality(DOMAIN coll) < MaxDocuments
            THEN {run(CrudRequest("createMovie", undefined, SAMPLE_MOVIE),
                      insertOne(coll, SAMPLE_MOVIE, [acknowledged |-> TRUE, applied |-> TRUE]).movies,
                      <<"insertOne", "findOne">>)}
            ELSE {})
      \cup {run(CrudRequest("createMoviesBatch", undefined, JsonArray(<<SAMPLE_MOVIES[1]>>)),
                coll, <<"insertMany">>)}
      \cup {run(CrudRequest("updateMovie", id, update), coll, <<"updateOne">>) : id \in ValidIds}
      \cup {run(CrudRequest("updateMovie", id, update), updateOne(coll, id, update).movies,
                <<"updateOne", "findOne">>) : id \in ValidIds \cap DOMAIN coll}
      \cup {run(CrudRequest("updateMoviesBatch", undefined, flt @@ ("update" :> update)),
                coll, <<"updateMany">>)}
      \cup {run(CrudRequest("deleteMovie", id, << >>), coll, <<"deleteOne">>) : id \in ValidIds}
      \cup {run(CrudRequest("deleteMoviesBatch", undefined, flt), coll, <<"deleteMany">>)}
      \cup {run(CrudRequest("findAndDeleteMovie", id, << >>), coll, <<"findOneAndDelete">>) :
              id \in ValidIds}

\* the errors a call can fail with
DatabaseErrors(call) ==
  IF call \in {"insertOne", "insertMany"} THEN {MongoError, DuplicateKeyError} ELSE {MongoError}

\* the await of the failing call rejects with err
Rejected(out, err) == [out EXCEPT !.awaited = Some([error |-> err])]

\* the message prefix of the earlier revision's catch block, by handler
FailedPrefix(op) ==
  CASE op = "getMovieById"       -> "Failed to retrieve movie: "
    [] op = "createMovie"        -> "Failed to create movie: "
    [] op = "createMoviesBatch"  -> "Failed to create movies: "
    [] op = "updateMovie"        -> "Failed to update movie: "
    [] op = "updateMoviesBatch"  -> "Failed to update movies: "
    [] op = "deleteMovie"        -> "Failed to delete movie: "
    [] op = "deleteMoviesBatch"  -> "Failed to delete movies: "
    [] op = "findAndDeleteMovie" -> "Failed to find and delete movie: "

\* a handler awaits a call that rejects: the rejection leaves the handler
\* and asyncHandler passes it to errorHandler
databaseFails ==
  /\ impl = "express"
  /\ Idle
  /\ \E run \in FailingRuns(movies) :
       \E err \in DatabaseErrors(run.dbOps[Len(run.dbOps)]) :
         Handled(run.req, Rejected(ExpressThrows(run.movies, run.dbOps, err), err))

\* the same in the earlier revision: getAllMovies rethrows the error it
\* caught, every other handler throws a new Error that quotes its message
databaseFails0 ==
  /\ impl = "express0"
  /\ Idle
  /\ \E run \in FailingRuns(movies) :
       \E err \in DatabaseErrors(run.dbOps[Len(run.dbOps)]) :
         Handled(run.req,
           Rejected(IF run.req.op = "getAllMovies"
                    THEN ExpressThrows(run.movies, run.dbOps, err)
                    ELSE catchRethrow(FailedPrefix(run.req.op),
                                      ExpressThrows(run.movies, run.dbOps, err)),
                    err))

\* the exception the Java driver throws for a failing call: a
\* MongoWriteException for a write error of insertOne, a
\* MongoBulkWriteException for one of insertMany, a MongoException otherwise
DriverException(call, err) ==
  IF err.code = 11000
  THEN [err EXCEPT !.name = IF call = "insertOne" THEN "MongoWriteException"
                            ELSE "MongoBulkWriteException"]
  ELSE [err EXCEPT !.name = "MongoException"]

\* a MovieRepositoryImpl method throws: the exception passes through the
\* service and the controller to the GlobalExceptionHandler
MovieRepositoryImpl_fails ==
  /\ impl = "spring"
  /\ Idle
  /\ \E run \in FailingRuns(movies) :
       \E err \in DatabaseErrors(run.dbOps[Len(run.dbOps)]) :
         LET ex == DriverException(run.dbOps[Len(run.dbOps)], err)
         IN  Handled(run.req, Rejected(SpringThrows(run.movies, run.dbOps, ex), ex))

WriteNext ==
  \/ getMovieById
  \/ updateMovie
  \/ deleteMovie
  \/ deleteMoviesBatch
  \/ MovieServiceImpl_getMovieById
  \/ MovieServiceImpl_updateMovie
  \/ MovieServiceImpl_deleteMovie
  \/ MovieServiceImpl_deleteMoviesBatch
  \/ createMoviesBatch
  \/ createMoviesBatch0
  \/ MovieServiceImpl_createMoviesBatch
  \/ updateMoviesBatch
  \/ MovieServiceImpl_updateMoviesBatch
  \/ databaseFails
  \/ databaseFails0
  \/ MovieRepositoryImpl_fails
  \/ RequestDone

\* the requests that read and write single documents and batches, served
\* by a server that has started, against a database whose calls may fail
WriteSpec == ServingInit /\ [][WriteNext]_vars

\* ------------------------------------------------------------------------
\* POST /api/movies and PUT /api/movies/:id, one database call at a time,
\* next to the find-and-delete requests of the clients
\* ------------------------------------------------------------------------

\* req.body of POST /api/movies
movieDataValues == {<< >>, "title" :> "", SAMPLE_MOVIE}

NotAcknowledged == "Movie insertion was not acknowledged by the database"

\* the handler op is at an await or at its response
InFlight(op) ==
  /\ pc = "listening"
  /\ request # << >>
  /\ response = << >>
  /\ "op" \in DOMAIN request[1]
  /\ request[1].op = op

\* the call the handler awaits has not returned
Pending(call) ==
  /\ Len(awaited) < Len(dbOps)
  /\ dbOps[Len(dbOps)] = call

\* the handler starts on a request and awaits its first call
Awaits(req, call) ==
  /\ request' = Some(req)
  /\ dbOps' = <<call>>
  /\ UNCHANGED <<impl, pc, log, indexes, vr, findCall, response, movies, clients, runs,
                 thrown, awaited>>

\* the handler goes on to its next call
AwaitsNext(call) ==
  /\ dbOps' = Append(dbOps, call)
  /\ UNCHANGED <<impl, pc, log, indexes, vr, request, findCall, response, movies, clients,
                 runs, thrown, awaited>>

\* the handler ends in the outcome out, which has its response and the
\* error it threw, if it threw one
Ends(out) ==
  /\ response' = Some(out.response)
  /\ thrown' = out.thrown
  /\ UNCHANGED <<impl, pc, log, indexes, vr, request, findCall, movies, dbOps, clients, runs,
                 awaited>>

\* the database has executed the pending call: result is what the handler's
\* await returns, coll the collection after the call
Returns(coll, result) ==
  /\ movies' = coll
  /\ awaited' = Append(awaited, result)
  /\ UNCHANGED <<impl, pc, log, indexes, vr, request, findCall, response, dbOps, clients, runs,
                 thrown>>

\* createMovie up to insertOne; the earlier revision validates outside its
\* try block as well
createMovie ==
  /\ impl \in ExpressImpls
  /\ Accepting
  /\ request = << >>
  /\ Cardinality(DOMAIN movies) < MaxDocuments
  /\ \E movieData \in movieDataValues :
       IF missingFields(movieData, {"title"}) # {}
       THEN Handled(CrudRequest("createMovie", undefined, movieData),
                    ExpressThrows(movies, << >>,
                                  Error("Error", "Missing required fields: title")))
       ELSE Awaits(CrudRequest("createMovie", undefined, movieData), "insertOne")

\* the database executes insertOne
insertOneReturns ==
  /\ InFlight("createMovie")
  /\ Pending("insertOne")
  /\ \E w \in WriteResults :
       LET r == insertOne(movies, request[1].body, w)
       IN  Returns(r.movies, [acknowledged |-> r.acknowledged, insertedId |-> r.insertedId])

\* createMovie after insertOne, without the check of result.acknowledged
createMovieReadUnchecked ==
  /\ impl \in ExpressImpls
  /\ InFlight("createMovie")
  /\ dbOps = <<"insertOne">>
  /\ Len(awaited) = 1
  /\ AwaitsNext("findOne")

\* createMovie after insertOne: the check of result.acknowledged, then
\* findOne; the earlier revision catches and rethrows
createMovieRead ==
  /\ impl \in ExpressImpls
  /\ InFlight("createMovie")
  /\ dbOps = <<"insertOne">>
  /\ Len(awaited) = 1
  /\ IF ~awaited[1].acknowledged
     THEN LET out == ExpressThrows(movies, dbOps, Error("Error", NotAcknowledged))
          IN  Ends(IF impl = "express0" THEN catchRethrow("Failed to create movie: ", out)
                   ELSE out)
     ELSE AwaitsNext("findOne")

\* the database executes the findOne of createMovie or of updateMovie
findOneReturns ==
  /\ \/ InFlight("createMovie")
     \/ InFlight("updateMovie")
  /\ Pending("findOne")
  /\ LET id == IF request[1].op = "createMovie" THEN awaited[1].insertedId ELSE request[1].id
     IN  Returns(movies, [doc |-> findOne(movies, id).doc])

\* createMovie after findOne
createMovieRespond ==
  /\ impl \in ExpressImpls
  /\ InFlight("createMovie")
  /\ Len(awaited) = 2
  /\ Ends(Outcome(movies, dbOps,
                  [createSuccessResponseWith(awaited[2].doc) EXCEPT !.status = 201]))

\* MovieControllerImpl.createMovie, whose @Valid turns a blank title down,
\* and MovieServiceImpl.createMovie up to insertOne
MovieServiceImpl_createMovie ==
  /\ impl = "spring"
  /\ Accepting
  /\ request = << >>
  /\ Cardinality(DOMAIN movies) < MaxDocuments
  /\ \E movieData \in movieDataValues :
       IF missingFields(movieData, {"title"}) # {}
       THEN Handled(CrudRequest("createMovie", undefined, movieData),
                    SpringThrows(movies, << >>,
                                 Error("MethodArgumentNotValidException", "Title is required")))
       ELSE Awaits(CrudRequest("createMovie", undefined, movieData), "insertOne")

\* MovieServiceImpl.createMovie after insertOne
MovieServiceImpl_createMovieRead ==
  /\ impl = "spring"
  /\ InFlight("createMovie")
  /\ dbOps = <<"insertOne">>
  /\ Len(awaited) = 1
  /\ IF ~awaited[1].acknowledged
     THEN Ends(SpringThrows(movies, dbOps, Error("RuntimeException", NotAcknowledged)))
     ELSE AwaitsNext("findOne")

\* orElseThrow, then MovieControllerImpl.createMovie's response
MovieControllerImpl_createMovie ==
  /\ impl = "spring"
  /\ InFlight("createMovie")
  /\ Len(awaited) = 2
  /\ Ends(IF awaited[2].doc = undefined
          THEN SpringThrows(movies, dbOps,
                            Error("RuntimeException", "Failed to retrieve created movie"))
          ELSE Outcome(movies, dbOps,
                       [createSuccessResponseWith(awaited[2].doc) EXCEPT !.status = 201]))

\* updateMovie up to updateOne
updateMovieCall ==
  /\ impl \in ExpressImpls
  /\ Accepting
  /\ request = << >>
  /\ \E id \in idValues, updateData \in updateDataValues :
       IF ~ObjectIdIsValid(id) \/ DOMAIN updateData = {}
       THEN Handled(CrudRequest("updateMovie", id, updateData),
                    updateMovieHandler(movies, id, updateData))
       ELSE Awaits(CrudRequest("updateMovie", id, updateData), "updateOne")

\* the database executes updateOne
updateOneReturns ==
  /\ InFlight("updateMovie")
  /\ Pending("updateOne")
  /\ LET r == updateOne(movies, request[1].id, request[1].body)
     IN  Returns(r.movies, [matchedCount |-> r.matchedCount])

\* updateMovie after updateOne: the check of matchedCount, then findOne
updateMovieRead ==
  /\ impl \in ExpressImpls
  /\ InFlight("updateMovie")
  /\ dbOps = <<"updateOne">>
  /\ Len(awaited) = 1
  /\ IF awaited[1].matchedCount = 0
     THEN Ends(Outcome(movies, dbOps, createErrorResponse(404, "MOVIE_NOT_FOUND")))
     ELSE AwaitsNext("findOne")

\* updateMovie after findOne
updateMovieRespond ==
  /\ impl \in ExpressImpls
  /\ InFlight("updateMovie")
  /\ Len(awaited) = 2
  /\ Ends(Outcome(movies, dbOps, createSuccessResponseWith(awaited[2].doc)))

\* MovieServiceImpl.updateMovie up to updateOne
MovieServiceImpl_updateMovieCall ==
  /\ impl = "spring"
  /\ Accepting
  /\ request = << >>
  /\ \E id \in idValues, updateData \in updateDataValues :
       IF ~ObjectIdIsValid(id)
       THEN Handled(CrudRequest("updateMovie", id, updateData),
                    SpringThrows(movies, << >>, InvalidIdException))
       ELSE IF DOMAIN updateData = {}
       THEN Handled(CrudRequest("updateMovie", id, updateData),
                    SpringThrows(movies, << >>,
                                 Error("ValidationException", "No update data provided")))
       ELSE Awaits(CrudRequest("updateMovie", id, updateData), "updateOne")

\* MovieServiceImpl.updateMovie after updateOne
MovieServiceImpl_updateMovieRead ==
  /\ impl = "spring"
  /\ InFlight("updateMovie")
  /\ dbOps = <<"updateOne">>
  /\ Len(awaited) = 1
  /\ IF awaited[1].matchedCount = 0
     THEN Ends(SpringThrows(movies, dbOps, MovieNotFoundException))
     ELSE AwaitsNext("findOne")

\* orElseThrow, then MovieControllerImpl.updateMovie's response
MovieControllerImpl_updateMovie ==
  /\ impl = "spring"
  /\ InFlight("updateMovie")
  /\ Len(awaited) = 2
  /\ Ends(IF awaited[2].doc = undefined
          THEN SpringThrows(movies, dbOps,
                            Error("RuntimeException", "Failed to retrieve updated movie"))
          ELSE Outcome(movies, dbOps, createSuccessResponseWith(awaited[2].doc)))

\* the client whose find-and-delete requests run next to the write
\* request: of the deletes of a document, the first is the one the write
\* request can notice
Deleters == {c \in Clients : \A d \in Clients : c <= d}

ConcurrentNext ==
  \/ createMovie
  \/ insertOneReturns
  \/ createMovieRead
  \/ findOneReturns
  \/ createMovieRespond
  \/ MovieServiceImpl_createMovie
  \/ MovieServiceImpl_createMovieRead
  \/ MovieControllerImpl_createMovie
  \/ updateMovieCall
  \/ updateOneReturns
  \/ updateMovieRead
  \/ updateMovieRespond
  \/ MovieServiceImpl_updateMovieCall
  \/ MovieServiceImpl_updateMovieRead
  \/ MovieControllerImpl_updateMovie
  \/ RequestDone
  \/ \E c \in Deleters : findAndDeleteMovie(c)
  \/ \E c \in Deleters : findAndDeleteMovieRespond(c)
  \/ \E c \in Deleters : MovieServiceImpl_findAndDeleteMovie(c)
  \/ \E c \in Deleters : MovieControllerImpl_findAndDeleteMovie(c)
  \/ \E c \in Deleters : findOneAndDeleteReturns(c)
  \/ ClientsDone

\* a request that creates or updates a movie, its database calls
\* interleaved with those of the find-and-delete requests in flight
ConcurrentSpec == ServingInit /\ [][ConcurrentNext]_vars

\* ------------------------------------------------------------------------
\* Properties
\* ------------------------------------------------------------------------

\* a find has been issued for the request being handled
FindIssued == findCall # << >>

\* the database served the request's find, if one was issued
WorkingDatabase == ~(FindIssued /\ findFails(indexes, findCall[1].filter))

Title == <<"t", "i", "t", "l", "e">>

\* C1: whatever the `limit` parameter is, the limit passed to find is an
\* integer L with 1 <= L <= 100.
C1_LimitInRange ==
  FindIssued =>
    /\ findCall[1].limit # NaN
    /\ findCall[1].limit[1] >= 1
    /\ findCall[1].limit[1] <= 100

\* C2: the skip passed to find is an integer S >= 0: 0 for an absent or
\* unparseable skip, 0 for a negative one, the value itself otherwise.
C2_SkipNonNegative ==
  FindIssued =>
    /\ findCall[1].skip # NaN
    /\ findCall[1].skip[1] >= 0
    /\ request[1].skip \in {undefined, Some(<<"a", "b", "c">>), Some(<<"-", "3">>)}
         => findCall[1].skip = Some(0)
    /\ request[1].skip = Some(<<"7">>) => findCall[1].skip = Some(7)

\* C3: against a working database every GET /api/movies request, whatever
\* its parameters, ends in a success response.
C3_ListingIsTotal ==
  (response # << >> /\ WorkingDatabase) =>
    /\ FindIssued
    /\ response[1].success
    /\ response[1].status = 200


Logged(level, msg) == \E i \in 1..Len(log) : log[i] = Entry(level, msg)

VerifierReturned == pc \in {"verified", "listening"}

\* C4: the startup verifier returns normally for every outcome of the count
\* read and of the index creation; a failure becomes a log entry (an index
\* creation failure an error entry plus the text-search warning) and the
\* process is never stopped by the verifier.
C4_VerifierNeverThrows ==
  /\ pc \in {"exited", "aborted"} => vr.count = "pending"
  /\ vr.count = "threw" =>
       /\ VerifierReturned
       /\ \E i \in 1..Len(log) : log[i].level = "ERROR"
  /\ vr.index = "threw" =>
       /\ VerifierReturned
       /\ Logged("ERROR", "Could not create text search index")
       /\ Logged("WARN", "Text search functionality may not work without the index")

C4_Witness == impl = "spring" /\ vr.index = "threw" /\ pc = "listening"

\* C5: once the database connection is established the process eventually
\* listens, whatever the count read and the index creation did, and no
\* verification failure terminates the process.
C5_ReadinessNotGated ==
  /\ (pc = "connected") ~> (pc = "listening")
  /\ [](vr.count # "pending" => pc \notin {"exited", "aborted"})

C5_Witness == impl = "spring" /\ vr.count = "threw" /\ pc = "listening"

\* a parameter that is present and not blank
Given(p) == p # undefined /\ trim(p[1]) # << >>

C7_SortOrderCaseInsensitive ==
  FindIssued =>
    LET Q == request[1]
        S == findCall[1].sort
    IN  /\ S.field = (IF Q.sortBy = undefined THEN Title ELSE Q.sortBy[1])
        /\ S.order \in {-1, 1}
        /\ S.order = -1 <=>
             (Q.sortOrder # undefined /\ toLowerCase(Q.sortOrder[1]) = <<"d", "e", "s", "c">>)

\* C8: a request with no query parameter compiles to the empty filter,
\* sort (title, ascending), limit 20 and skip 0.
C8_Defaults ==
  (request = Some(NoQuery) /\ response # << >>) =>
    findCall = Some(FindArgs(EmptyFilter, [field |-> Title, order |-> 1], Some(20), Some(0)))

C8_Witness ==
  /\ impl = "express"
  /\ request = Some(NoQuery)
  /\ FindIssued
  /\ response = Some(createSuccessResponse)

\* C9: the limit is 20 when `limit` is absent or not an integer, 1 when it
\* is an integer below 1 (0 included), 100 when it is above 100, and the
\* value itself when it is in 1..100.
C9_LimitDefaultThenClamp ==
  FindIssued =>
    LET l == request[1].limit
        L == findCall[1].limit
    IN  /\ l \in {undefined, Some(<< >>), Some(<<"a", "b", "c">>)} => L = Some(20)
        /\ l \in {Some(<<"0">>), Some(<<"-", "5">>)} => L = Some(1)
        /\ l = Some(<<"1", "0", "1">>) => L = Some(100)
        /\ l = Some(<<"5">>) => L = Some(5)

\* C10: a year, minRating or maxRating that is supplied but is no number is
\* treated as absent: the filter has no predicate and no not-a-number
\* operand for it, and the request succeeds.
C10_UnparseableIsAbsent ==
  LET Q == request[1]
  IN  (response # << >> /\ WorkingDatabase /\ Q.genre # Some(<<"[">>)
         /\ (Q.year = Some(<<"x">>) \/ Q.minRating = Some(<<"x">>) \/ Q.maxRating = Some(<<"x">>)))
      => /\ response[1].success
         /\ FindIssued
         /\ Q.year = Some(<<"x">>) => "year" \notin DOMAIN findCall[1].filter
         /\ Q.minRating = Some(<<"x">>) =>
              ("imdb.rating" \in DOMAIN findCall[1].filter
                 => "$gte" \notin DOMAIN findCall[1].filter["imdb.rating"])
         /\ Q.maxRating = Some(<<"x">>) =>
              ("imdb.rating" \in DOMAIN findCall[1].filter
                 => "$lte" \notin DOMAIN findCall[1].filter["imdb.rating"])

\* C11: a q or genre that is present but blank (empty or white space only)
\* adds no predicate: the filter has $text only for a non-blank q and
\* genres only for a non-blank genre.
C11_BlankAddsNoPredicate ==
  FindIssued =>
    LET Q == request[1]
        F == findCall[1].filter
    IN  /\ "$text" \in DOMAIN F <=> Given(Q.q)
        /\ "genres" \in DOMAIN F <=> Given(Q.genre)

\* C15: the verifier logs the empty-collection message exactly when the
\* count it read is 0, as a warning and never as an error, and then still
\* attempts the index creation and returns normally.
C15_EmptyCollectionWarning ==
  /\ Logged("WARN", "Movies collection is empty") <=> (vr.count = "ok" /\ vr.n = 0)
  /\ \A i \in 1..Len(log) : log[i].msg = "Movies collection is empty" => log[i].level = "WARN"
  /\ (vr.count = "ok" /\ vr.n = 0) =>
       /\ pc \in {"indexing", "verified", "listening"}
       /\ VerifierReturned => vr.index \in {"created", "threw"}

C15_Witness ==
  /\ impl = "spring"
  /\ vr.count = "ok"
  /\ vr.n = 0
  /\ vr.index = "created"
  /\ Logged("WARN", "Movies collection is empty")
  /\ pc = "listening"

NoErrorLogged == \A i \in 1..Len(log) : log[i].level # "ERROR"

\* C14: running the verifier is idempotent on the index catalog: after one
\* or more successful runs the collection has exactly one text index,
\* text_search_index over plot, title and fullplot; a run that finds it
\* already there leaves the catalog unchanged and logs no error.
C14_VerifierIdempotent ==
  [][(vr'.index = "created" /\ vr.index # "created") =>
       /\ indexes' = {[name |-> TEXT_INDEX_NAME, fields |-> {"plot", "title", "fullplot"}]}
       /\ TextIndex \in indexes => indexes' = indexes
       /\ NoErrorLogged']_vars

C14_Witness ==
  /\ runs = 2
  /\ impl = "spring"
  /\ pc = "listening"
  /\ vr.index = "created"
  /\ indexes = {TextIndex}
  /\ NoErrorLogged

\* a request for GET /api/movies enters the slot
ListingStep == request = << >> /\ request' # << >> /\ "op" \notin DOMAIN request'[1]

\* C16: handling GET /api/movies never mutates the database: the only
\* operation getAllMovies issues is a find, and the documents and the index
\* catalog are the same after the request as before it.
C16_ListingNeverMutates ==
  [][ListingStep =>
       /\ movies' = movies
       /\ indexes' = indexes
       /\ dbOps' \in {<< >>, <<"find">>}
       /\ findCall' # << >> <=> dbOps' = <<"find">>]_vars

C16_Witness ==
  /\ impl = "express"
  /\ FindIssued
  /\ dbOps = <<"find">>
  /\ response = Some(createSuccessResponse)
  /\ movies = (TEST_MOVIE_ID :> [title |-> "Updated Movie", year |-> 2024])

\* the request in the slot is one for the named handler and has been answered
Answered(op) ==
  /\ request # << >>
  /\ response # << >>
  /\ "op" \in DOMAIN request[1]
  /\ request[1].op = op

\* C17: deleteMoviesBatch with a missing or empty filter is answered with
\* 400 MISSING_FILTER and never invokes deleteMany.
C17_BatchDeleteNeedsFilter ==
  (/\ Answered("deleteMoviesBatch")
   /\ ("filter" \notin DOMAIN request[1].body \/ DOMAIN request[1].body["filter"] = {}))
  => /\ response[1] = createErrorResponse(400, "MISSING_FILTER")
     /\ dbOps = << >>

\* at most one of the requests for an id got the document, and then the
\* document is gone
FindAndDeleteAtomic ==
  \A id \in idValues :
    LET got == {c \in Clients : clients[c].id = Some(id) /\ clients[c].doc # undefined}
    IN  /\ Cardinality(got) <= 1
        /\ got # {} => id \notin DOMAIN movies

\* C18: of several concurrent findAndDeleteMovie requests for one existing
\* id exactly one receives the deleted document in a success response,
\* every other one receives 404 MOVIE_NOT_FOUND, and the document is
\* removed exactly once.
C18_FindAndDeleteAtomic ==
  /\ FindAndDeleteAtomic
  /\ \A c \in Clients :
       (clients[c].pc = "responded" /\ ObjectIdIsValid(clients[c].id[1])) =>
         clients[c].response =
           Some(IF clients[c].doc # undefined
                THEN createSuccessResponse
                ELSE createErrorResponse(404, "MOVIE_NOT_FOUND"))

ByIdHandlers == {"getMovieById", "updateMovie", "deleteMovie"}

\* C19: getMovieById, updateMovie, deleteMovie and findAndDeleteMovie with
\* an id that is no valid ObjectId respond 400 INVALID_OBJECT_ID and perform
\* no database operation, whatever the body is.
C19_InvalidObjectId ==
  /\ (/\ \E op \in ByIdHandlers : Answered(op)
      /\ ~ObjectIdIsValid(request[1].id))
     => /\ response[1] = createErrorResponse(400, "INVALID_OBJECT_ID")
        /\ dbOps = << >>
  /\ \A c \in Clients :
       (clients[c].pc = "responded" /\ ~ObjectIdIsValid(clients[c].id[1])) =>
         /\ clients[c].response = Some(createErrorResponse(400, "INVALID_OBJECT_ID"))
         /\ clients[c].doc = undefined

\* a request with a valid id that no document has enters the slot
MissingIdStep ==
  /\ request = << >>
  /\ request' # << >>
  /\ "op" \in DOMAIN request'[1]
  /\ request'[1].op \in ByIdHandlers
  /\ ObjectIdIsValid(request'[1].id)
  /\ request'[1].id \notin DOMAIN movies
  /\ request'[1].op = "updateMovie" => DOMAIN request'[1].body # {}

\* C20: for a valid id that matches no document, getMovieById, updateMovie,
\* deleteMovie and findAndDeleteMovie respond 404 MOVIE_NOT_FOUND, send no
\* success response, and leave the collection unchanged.
C20_MovieNotFound ==
  [][/\ MissingIdStep =>
          /\ response' = Some(createErrorResponse(404, "MOVIE_NOT_FOUND"))
          /\ movies' = movies
     /\ \A c \in Clients :
          /\ (clients[c].pc = "awaiting" /\ clients'[c].pc = "returned"
                /\ clients[c].id[1] \notin DOMAIN movies)
             => (movies' = movies /\ clients'[c].doc = undefined)
          /\ (clients[c].pc = "returned" /\ clients'[c].pc = "responded"
                /\ clients[c].doc = undefined)
             => clients'[c].response = Some(createErrorResponse(404, "MOVIE_NOT_FOUND"))]_vars

\* the number a rating parameter stands for, in tenths
RatingBound == (<<"0">> :> 0) @@ (<<"7", ".", "0">> :> 70) @@ (<<"9", ".", "0">> :> 90)

\* C12: the rating predicate is an inclusive range with optional ends: a
\* document with rating r satisfies it iff (minRating is not supplied or
\* r >= minRating) and (maxRating is not supplied or r <= maxRating); a
\* bound of 0 counts as supplied.
C12_RatingRangeInclusive ==
  /\ (response # << >> /\ request[1].genre # Some(<<"[">>)) => FindIssued
  /\ FindIssued =>
       LET Q == request[1]
           F == [k \in DOMAIN findCall[1].filter \ {"genres"} |-> findCall[1].filter[k]]
       IN  \A doc \in MovieDocuments :
             doc.rating # undefined =>
               (listingMatch(doc, F) <=>
                  /\ Q.minRating = undefined \/ doc.rating[1] >= RatingBound[Q.minRating[1]]
                  /\ Q.maxRating = undefined \/ doc.rating[1] <= RatingBound[Q.maxRating[1]])

C12_Witness ==
  /\ impl = "spring"
  /\ FindIssued
  /\ request[1].minRating = Some(<<"0">>)
  /\ request[1].maxRating = Some(<<"9", ".", "0">>)
  /\ findCall[1].filter["imdb.rating"] = ("$gte" :> Some(0)) @@ ("$lte" :> Some(90))
  /\ listingMatch([genres |-> << >>, rating |-> Some(90)], findCall[1].filter)
  /\ ~listingMatch([genres |-> << >>, rating |-> Some(91)], findCall[1].filter)

\* g occurs in str as a substring, letters compared without regard to case
containsIgnoreCase(str, g) ==
  \E i \in 1..(Len(str) + 1) :
    /\ i + Len(g) - 1 <= Len(str)
    /\ \A j \in 1..Len(g) : toLowerCaseChar(str[i + j - 1]) = toLowerCaseChar(g[j])

\* C13: a genre value g matches a document iff at least one of the
\* document's genre strings contains g as a substring, compared
\* case-insensitively and unanchored; the characters of g are given no
\* other interpretation.
C13_GenreIsSubstring ==
  (response # << >> /\ Given(request[1].genre)) =>
    /\ FindIssued
    /\ LET g == request[1].genre[1]
           F == [k \in DOMAIN findCall[1].filter \cap {"genres"} |-> findCall[1].filter[k]]
       IN  \A doc \in MovieDocuments :
             listingMatch(doc, F) <=>
               \E k \in 1..Len(doc.genres) : containsIgnoreCase(doc.genres[k], g)

\* C26: startup is strictly ordered: the database connection completes
\* before the verification begins, the verification finishes before the
\* server starts listening, and no request is served before the
\* verification has finished.
C26_StartupOrdered ==
  [][/\ (pc' = "counting" /\ pc # "counting") => pc = "connected"
     /\ vr' # vr => pc \in {"connected", "counting", "indexing"}
     /\ (pc' = "listening" /\ pc # "listening") =>
          (pc = "verified" /\ vr.count # "pending" /\ vr.index # "pending")
     /\ (request' # << >> /\ request = << >>) =>
          (pc = "listening" /\ vr.count # "pending" /\ vr.index # "pending")]_vars

C26_Witness ==
  /\ impl = "express"
  /\ pc = "listening"
  /\ vr.count = "ok"
  /\ Logged("INFO", "Connected to MongoDB successfully")
  /\ Logged("INFO", "All requirements verified successfully")
  /\ request # << >>
  /\ response # << >>

IndexMessages ==
  {"Text search index created/verified", "Could not create text search index",
   "Text search functionality may not work without the index"}

\* C27: inside one verifier run the index creation is attempted only after
\* the count read has returned; when the count read throws, index creation
\* is not attempted in that run and the verifier goes straight to its error
\* log and is done.
C27_CountBeforeIndex ==
  [][/\ (vr.index = "pending" /\ vr'.index \in {"created", "threw"}) =>
          (vr'.count = "ok" /\ (impl = "spring" => vr.count = "ok"))
     /\ indexes' # indexes => vr'.count = "ok"
     /\ (vr.count = "pending" /\ vr'.count = "threw") =>
          /\ indexes' = indexes
          /\ vr'.index = "skipped"
          /\ pc' = "verified"
          /\ Len(log') > Len(log)
          /\ log'[Len(log) + 1].level = "ERROR"
          /\ \A i \in (Len(log) + 1)..Len(log') : log'[i].msg \notin IndexMessages
     /\ vr.count = "threw" => (vr'.index = "skipped" /\ indexes' = indexes)]_vars

C27_Witness ==
  /\ impl = "spring"
  /\ vr.count = "threw"
  /\ vr.index = "skipped"
  /\ indexes = {}
  /\ pc = "listening"
  /\ ~(\E i \in 1..Len(log) : log[i].msg \in IndexMessages)

\* C28: in one process start the verifier runs exactly once and issues at
\* most one count read and at most one index-creation call; no step is
\* retried after it fails.
C28_VerifierRunsOnce ==
  [][runs' = runs =>
       /\ vr.count # "pending" => (vr'.count = vr.count /\ vr'.n = vr.n)
       /\ vr.index # "pending" => (vr'.index = vr.index /\ indexes' = indexes)
       /\ VerifierReturned => (vr' = vr /\ VerifierReturned')
       /\ (pc' = "listening" /\ pc # "listening") =>
            /\ vr'.count \in {"ok", "threw"}
            /\ impl = "spring" =>
                 Cardinality({i \in 1..Len(log') :
                                log'[i].msg = "Starting database verification"}) = 1]_vars

C28_Witness ==
  /\ runs = 2
  /\ impl = "spring"
  /\ vr.count = "ok"
  /\ vr.index = "threw"
  /\ pc = "listening"

\* C23: updateMovie with a valid id and a body that has no fields responds
\* 400 NO_UPDATE_DATA and never invokes updateOne; when the id is invalid as
\* well, the id-format error is the one that is answered.
C23_NoUpdateData ==
  (Answered("updateMovie") /\ DOMAIN request[1].body = {}) =>
    /\ dbOps = << >>
    /\ response[1] = (IF ObjectIdIsValid(request[1].id)
                      THEN createErrorResponse(400, "NO_UPDATE_DATA")
                      ELSE createErrorResponse(400, "INVALID_OBJECT_ID"))

\* a request to the handler op enters the slot and is answered
Handles(op) ==
  /\ request = << >>
  /\ request' # << >>
  /\ "op" \in DOMAIN request'[1]
  /\ request'[1].op = op

\* the body of a batch creation is an array in which some movie object
\* lacks a title
LacksTitle(moviesData) ==
  /\ ArrayIsArray(moviesData)
  /\ \E i \in 1..Len(moviesData.items) : missingFields(moviesData.items[i], {"title"}) # {}

\* createMoviesBatch turns the body down without a database call
BatchTurnedDown ==
  /\ response'[1].success = FALSE
  /\ dbOps' = << >>
  /\ movies' = movies

\* C21: createMoviesBatch inserts nothing unless the whole request is valid:
\* a body that is no array or an empty array is answered with 400
\* INVALID_INPUT, and when an element lacks a title the request fails before
\* insertMany is called, so that no part of the batch is inserted.
C21_BatchAllOrNothing ==
  [][Handles("createMoviesBatch") =>
       LET moviesData == request'[1].body
       IN  /\ (~ArrayIsArray(moviesData) \/ Len(moviesData.items) = 0) =>
                 /\ response' = Some(createErrorResponse(400, "INVALID_INPUT"))
                 /\ BatchTurnedDown
           /\ LacksTitle(moviesData) => BatchTurnedDown]_vars

\* the request is turned down with the given code and no database call
TurnedDown(status, code) ==
  /\ response' = Some(createErrorResponse(status, code))
  /\ dbOps' = << >>
  /\ movies' = movies

\* the $set of the update went to every document the filter matches, and
\* the response reports the counts of that updateMany
AppliedToAll(flt, update) ==
  LET r == updateMany(movies, flt, update)
  IN  /\ dbOps' = <<"updateMany">>
      /\ movies' = r.movies
      /\ response'[1].status = 200
      /\ response'[1].success
      /\ response'[1].data = [matchedCount |-> r.matchedCount, modifiedCount |-> r.modifiedCount]

\* C24: updateMoviesBatch is rejected in exactly two cases, without a call
\* of updateMany: 400 MISSING_REQUIRED_FIELDS when filter or update is
\* absent, 400 EMPTY_UPDATE when update has no keys; every other request,
\* one with an empty filter included, applies the $set to all matching
\* documents and reports matchedCount and modifiedCount.
C24_BatchUpdateRejections ==
  [][(Handles("updateMoviesBatch") /\ awaited' = << >>) =>
       LET body == request'[1].body
       IN  IF "filter" \notin DOMAIN body \/ "update" \notin DOMAIN body
           THEN TurnedDown(400, "MISSING_REQUIRED_FIELDS")
           ELSE IF DOMAIN body["update"] = {}
           THEN TurnedDown(400, "EMPTY_UPDATE")
           ELSE AppliedToAll(body["filter"], body["update"])]_vars

\* what the Express backend answers to the request req on the collection
\* coll: to a request one of whose database calls was rejected, what
\* errorHandler makes of the driver's error; to any other request, the
\* response of the handler's body
ExpressAnswers(req, coll, rejection) ==
  IF rejection # << >>
  THEN {errorHandler([rejection[1].error EXCEPT !.name = "MongoError"])}
  ELSE CASE req.op = "getMovieById"      -> {getMovieByIdHandler(coll, req.id).response}
         [] req.op = "updateMovie"       -> {updateMovieHandler(coll, req.id, req.body).response}
         [] req.op = "deleteMovie"       -> {deleteMovieHandler(coll, req.id).response}
         [] req.op = "deleteMoviesBatch" -> {deleteMoviesBatchHandler(coll, req.body).response}
         [] req.op = "updateMoviesBatch" -> {updateMoviesBatchHandler(coll, req.body).response}
         [] req.op = "createMoviesBatch" ->
              {createMoviesBatchHandler(coll, req.body, w).response : w \in WriteResults}

\* C25: the Spring backend matches the Express backend response for
\* response: to every request, on every state of the database, it answers
\* with the HTTP status and the error code that Express answers with.
C25_SpringMatchesExpress ==
  [][(impl = "spring" /\ request = << >> /\ request' # << >>) =>
       \E answer \in ExpressAnswers(request'[1], movies, awaited') :
         /\ response'[1].status = answer.status
         /\ response'[1].code = answer.code]_vars

\* a database call of the request in the slot was rejected
CallRejected == awaited # << >> /\ "error" \in DOMAIN awaited[1]

\* the error carries the message of the cause
Carries(error, cause) ==
  \A i \in 1..Len(cause.message) :
    \E j \in 1..Len(error.message) : error.message[j] = cause.message[i]

\* the response the error middleware of the backend makes of an error
ErrorMiddleware(error) ==
  IF impl \in ExpressImpls THEN errorHandler(error) ELSE GlobalExceptionHandler(error)

C22_CreatedOnlyWhenAcknowledged ==
  Answered("createMovie") =>
    /\ response[1].success =>
          /\ response[1].status = 201
          /\ dbOps # << >>
          /\ dbOps[1] = "insertOne"
          /\ awaited # << >>
          /\ awaited[1].acknowledged
    /\ (awaited # << >> /\ ~awaited[1].acknowledged) =>
          /\ ~response[1].success
          /\ thrown # << >>
          /\ Carries(thrown[1], Error("Error", NotAcknowledged))

C22_Witness ==
  /\ impl = "express"
  /\ Answered("createMovie")
  /\ awaited = <<[acknowledged |-> FALSE, insertedId |-> ABSENT_MOVIE_ID]>>
  /\ ABSENT_MOVIE_ID \in DOMAIN movies
  /\ thrown = Some(Error("Error", NotAcknowledged))
  /\ response = Some(createErrorResponse(500, "INTERNAL_SERVER_ERROR"))

\* C30: a success response of updateMovie (200) or createMovie (201) carries
\* the stored document with the targeted id, never empty data, however the
\* handler's write and its following read interleave with concurrent delete
\* requests for the same id.
C30_SuccessCarriesDocument ==
  \A op \in {"createMovie", "updateMovie"} :
    (Answered(op) /\ response[1].success) =>
      /\ response[1].data # undefined
      /\ response[1].data = awaited[2].doc

====
